---- MODULE Spec2Model ----
(***************************************************************************)
(* A model of the AI document summarizer (FastAPI service):                *)
(*   classifier.py  QuestionClassifier   question -> intent -> template    *)
(*   parsers.py     DocumentParser       file -> text (PDF with OCR)       *)
(*   summarizer.py  AISummarizer         prompts and the LLM backend call  *)
(*   main.py        /summarize and /batch-summarize                        *)
(*                                                                         *)
(* Text is a sequence of Unicode code points, so that lower-casing,        *)
(* stripping, slicing and substring search are computed character by       *)
(* character.  An optional value (Python None) is the empty sequence and   *)
(* a present value v is <<v>>.                                             *)
(***************************************************************************)
EXTENDS Integers, Sequences, FiniteSets, TLC

VARIABLES
  c_question,     \* classifier: the question text under classification
  c_qtype,        \* classifier: Some(result of classify), None before the call
  c_arg,          \* classifier: Some(argument given to get_format_template)
  c_template,     \* classifier: Some(template returned), None before the call
  p_document,     \* prompt builder: the document text given
  p_question,     \* prompt builder: the question text given
  p_qtype,        \* prompt builder: the question_type given
  p_embedded,     \* prompt builder: Some(document as embedded in the prompt)
  p_prompt,       \* prompt builder: Some(user prompt built)
  p_embedded2,    \* the same for a second call on the embedded document
  p_prompt2,
  s_provider,     \* summarizer: self.provider, set by __init__
  s_document,     \* summarizer: document_content of the invocation
  s_question,     \* summarizer: question of the invocation
  s_qtype,        \* summarizer: question_type of the invocation
  s_backend,      \* the backend's answers to the calls of the invocation
  s_out,          \* summarizer: Some(result of summarize), None before
  f_ocr_available, \* parser: self.ocr_available, set by __init__
  f_suffix,       \* parser: the suffix of file_path
  f_file,         \* parser: what file_path holds, None when it is missing
  f_result,       \* parser: Some(result of parse), None before the call
  f_content,      \* Some(document_content the pipeline goes on with)
  m_ocr_available, \* pipeline: parser.ocr_available
  m_endpoint,     \* pipeline: "summarize" or "batch-summarize"
  m_files,        \* pipeline: the uploads of the request
  m_questions,    \* pipeline: Some(the questions list), None: not JSON
  m_backends,     \* pipeline: the backend as each item's call finds it
  m_dir,          \* pipeline: the upload directory, file name -> content
  m_results,      \* batch_summarize: results
  m_outcomes,     \* history: what each summarize_document call gave
  m_response,     \* pipeline: Some(result of the request), None before
  k_ai_provider,  \* cost: Config.AI_PROVIDER
  k_model,        \* cost: the model asked for
  k_provider,     \* cost: Some(provider given), None when left out
  k_input_tokens, \* cost: the input token count
  k_output_tokens,\* cost: the output token count
  k_above,        \* cost: on which side of a decimal tie each double lies
  k_pricing,      \* cost: Some(result of get_pricing), None before
  k_cost,         \* cost: Some(result of calculate_cost), None before
  k_cost2,        \* the same for a second call
  o_answer,       \* formatter: the answer text given to format
  o_qtype,        \* formatter: the question_type given
  o_out,          \* formatter: Some(result of format), None before
  o_out2,         \* Some(result of format on that result)
  q_ocr_available,\* server: parser.ocr_available
  q_requests,     \* server: the requests to /summarize that were received
  q_pc,           \* server: where the handler of each request is
  q_loop,         \* server: the request whose handler the event loop runs, or 0
  q_dir,          \* server: the upload directory, file name -> content
  q_read,         \* server: Some(what the parser found stored), per request
  q_out           \* server: Some(outcome of the request), None before its end

cvars == <<c_question, c_qtype, c_arg, c_template>>

pvars ==
  <<p_document, p_question, p_qtype, p_embedded, p_prompt, p_embedded2,
    p_prompt2>>

svars ==
  <<s_provider, s_document, s_question, s_qtype, s_backend, s_out>>

fvars == <<f_ocr_available, f_suffix, f_file, f_result, f_content>>

mvars ==
  <<m_ocr_available, m_endpoint, m_files, m_questions, m_backends, m_dir,
    m_results, m_outcomes, m_response>>

kvars ==
  <<k_ai_provider, k_model, k_provider, k_input_tokens, k_output_tokens,
    k_above, k_pricing, k_cost, k_cost2>>

ovars ==
  <<o_answer, o_qtype, o_out, o_out2>>

qvars ==
  <<q_ocr_available, q_requests, q_pc, q_loop, q_dir, q_read, q_out>>

vars == <<cvars, pvars, svars, fvars, mvars, kvars, ovars, qvars>>

\* The variables each component leaves alone.
not_cvars == <<pvars, svars, fvars, mvars, kvars, ovars, qvars>>

not_pvars == <<cvars, svars, fvars, mvars, kvars, ovars, qvars>>

not_svars == <<cvars, pvars, fvars, mvars, kvars, ovars, qvars>>

not_fvars == <<cvars, pvars, svars, mvars, kvars, ovars, qvars>>

not_mvars == <<cvars, pvars, svars, fvars, kvars, ovars, qvars>>

not_kvars == <<cvars, pvars, svars, fvars, mvars, ovars, qvars>>

not_ovars == <<cvars, pvars, svars, fvars, mvars, kvars, qvars>>

not_qvars == <<cvars, pvars, svars, fvars, mvars, kvars, ovars>>

None == <<>>

Some(x) == <<x>>

----------------------------------------------------------------------------
(* Text primitives (Python str operations).                                *)

\* str.lower() of one character, for ASCII, Latin-1 and the Vietnamese
\* letters of Latin Extended-A/B and Latin Extended Additional.
lower(c) ==
  IF c \in 65..90 THEN c + 32
  ELSE IF c \in 192..222 /\ c # 215 THEN c + 32
  ELSE IF c \in {258, 272, 296, 360, 416, 431} THEN c + 1
  ELSE IF c \in 7840..7929 /\ c % 2 = 0 THEN c + 1
  ELSE c

str_lower(s) == [i \in 1..Len(s) |-> lower(s[i])]

\* The literal lit occurs in s at position i.
LitAt(lit, s, i) ==
  /\ i >= 1
  /\ i + Len(lit) - 1 <= Len(s)
  /\ \A k \in 1..Len(lit) : s[i + k - 1] = lit[k]

\* A pattern is a sequence of literals joined by ".*"; "." matches any
\* character except a line feed (10).  MatchRest: after the literals before
\* the k-th were matched up to position from-1, the rest can be matched.
RECURSIVE MatchRest(_, _, _, _)
MatchRest(parts, k, s, from) ==
  IF k > Len(parts) THEN TRUE
  ELSE \E j \in from..(Len(s) + 1) :
         /\ \A m \in from..(j - 1) : s[m] # 10
         /\ LitAt(parts[k], s, j)
         /\ MatchRest(parts, k + 1, s, j + Len(parts[k]))

\* re.search(pattern, s) is not None
re_search(parts, s) ==
  \E i \in 1..(Len(s) + 1) :
    /\ LitAt(parts[1], s, i)
    /\ MatchRest(parts, 2, s, i + Len(parts[1]))

----------------------------------------------------------------------------
(* classifier.py: QuestionClassifier                                       *)

\* self.patterns: a dict, iterated in insertion order.  Each pattern is the
\* sequence of its literal parts (code points); the comment gives the
\* pattern without diacritics.
patterns ==
  <<
    [qtype |-> "tom_tat", patterns |-> <<
      \* r"tom tat"
      <<<<116, 243, 109, 32, 116, 7855, 116>>>>,
      \* r"tong hop"
      <<<<116, 7893, 110, 103, 32, 104, 7907, 112>>>>,
      \* r"trinh bay"
      <<<<116, 114, 236, 110, 104, 32, 98, 224, 121>>>>,
      \* r"neu ro"
      <<<<110, 234, 117, 32, 114, 245>>>>,
      \* r"overview"
      <<<<111, 118, 101, 114, 118, 105, 101, 119>>>>,
      \* r"summarize"
      <<<<115, 117, 109, 109, 97, 114, 105, 122, 101>>>>
    >>],
    [qtype |-> "muc_tieu", patterns |-> <<
      \* r"muc tieu"
      <<<<109, 7909, 99, 32, 116, 105, 234, 117>>>>,
      \* r"muc dich"
      <<<<109, 7909, 99, 32, 273, 237, 99, 104>>>>,
      \* r"dinh huong"
      <<<<273, 7883, 110, 104, 32, 104, 432, 7899, 110, 103>>>>,
      \* r"target"
      <<<<116, 97, 114, 103, 101, 116>>>>,
      \* r"objective"
      <<<<111, 98, 106, 101, 99, 116, 105, 118, 101>>>>,
      \* r"goal"
      <<<<103, 111, 97, 108>>>>
    >>],
    [qtype |-> "cach_thuc_hien", patterns |-> <<
      \* r"lam the nao"
      <<<<108, 224, 109, 32, 116, 104, 7871, 32, 110, 224, 111>>>>,
      \* r"cach thuc hien"
      <<<<99, 225, 99, 104, 32, 116, 104, 7921, 99, 32, 104, 105, 7879, 110>>>>,
      \* r"cach lam"
      <<<<99, 225, 99, 104, 32, 108, 224, 109>>>>,
      \* r"trien khai"
      <<<<116, 114, 105, 7875, 110, 32, 107, 104, 97, 105>>>>,
      \* r"how to"
      <<<<104, 111, 119, 32, 116, 111>>>>,
      \* r"implementation"
      <<<<105, 109, 112, 108, 101, 109, 101, 110, 116, 97, 116, 105, 111, 110>>>>
    >>],
    [qtype |-> "ke_hoach", patterns |-> <<
      \* r"ke hoach"
      <<<<107, 7871, 32, 104, 111, 7841, 99, 104>>>>,
      \* r"lo trinh"
      <<<<108, 7897, 32, 116, 114, 236, 110, 104>>>>,
      \* r"roadmap"
      <<<<114, 111, 97, 100, 109, 97, 112>>>>,
      \* r"xay dung.*ke hoach"
      <<<<120, 226, 121, 32, 100, 7921, 110, 103>>, <<107, 7871, 32, 104, 111, 7841, 99, 104>>>>,
      \* r"plan"
      <<<<112, 108, 97, 110>>>>
    >>],
    [qtype |-> "kho_khan", patterns |-> <<
      \* r"kho khan"
      <<<<107, 104, 243, 32, 107, 104, 259, 110>>>>,
      \* r"vuong mac"
      <<<<118, 432, 7899, 110, 103, 32, 109, 7855, 99>>>>,
      \* r"thach thuc"
      <<<<116, 104, 225, 99, 104, 32, 116, 104, 7913, 99>>>>,
      \* r"han che"
      <<<<104, 7841, 110, 32, 99, 104, 7871>>>>,
      \* r"rao can"
      <<<<114, 224, 111, 32, 99, 7843, 110>>>>,
      \* r"challenge"
      <<<<99, 104, 97, 108, 108, 101, 110, 103, 101>>>>,
      \* r"difficulty"
      <<<<100, 105, 102, 102, 105, 99, 117, 108, 116, 121>>>>
    >>],
    [qtype |-> "ket_qua", patterns |-> <<
      \* r"ket qua"
      <<<<107, 7871, 116, 32, 113, 117, 7843>>>>,
      \* r"thanh tich"
      <<<<116, 104, 224, 110, 104, 32, 116, 237, 99, 104>>>>,
      \* r"dat duoc"
      <<<<273, 7841, 116, 32, 273, 432, 7907, 99>>>>,
      \* r"hoan thanh"
      <<<<104, 111, 224, 110, 32, 116, 104, 224, 110, 104>>>>,
      \* r"result"
      <<<<114, 101, 115, 117, 108, 116>>>>,
      \* r"achievement"
      <<<<97, 99, 104, 105, 101, 118, 101, 109, 101, 110, 116>>>>
    >>],
    [qtype |-> "so_sanh", patterns |-> <<
      \* r"so sanh"
      <<<<115, 111, 32, 115, 225, 110, 104>>>>,
      \* r"doi chieu"
      <<<<273, 7889, 105, 32, 99, 104, 105, 7871, 117>>>>,
      \* r"xep hang"
      <<<<120, 7871, 112, 32, 104, 7841, 110, 103>>>>,
      \* r"nao.*nhat"
      <<<<110, 224, 111>>, <<110, 104, 7845, 116>>>>,
      \* r"comparison"
      <<<<99, 111, 109, 112, 97, 114, 105, 115, 111, 110>>>>,
      \* r"ranking"
      <<<<114, 97, 110, 107, 105, 110, 103>>>>
    >>],
    [qtype |-> "goi_y", patterns |-> <<
      \* r"goi y"
      <<<<103, 7907, 105, 32, 253>>>>,
      \* r"de xuat"
      <<<<273, 7873, 32, 120, 117, 7845, 116>>>>,
      \* r"khuyen nghi"
      <<<<107, 104, 117, 121, 7871, 110, 32, 110, 103, 104, 7883>>>>,
      \* r"suggestion"
      <<<<115, 117, 103, 103, 101, 115, 116, 105, 111, 110>>>>,
      \* r"recommendation"
      <<<<114, 101, 99, 111, 109, 109, 101, 110, 100, 97, 116, 105, 111, 110>>>>
    >>],
    [qtype |-> "hieu_qua", patterns |-> <<
      \* r"hieu qua"
      <<<<104, 105, 7879, 117, 32, 113, 117, 7843>>>>,
      \* r"tac dong"
      <<<<116, 225, 99, 32, 273, 7897, 110, 103>>>>,
      \* r"anh huong"
      <<<<7843, 110, 104, 32, 104, 432, 7903, 110, 103>>>>,
      \* r"impact"
      <<<<105, 109, 112, 97, 99, 116>>>>,
      \* r"effect"
      <<<<101, 102, 102, 101, 99, 116>>>>
    >>],
    [qtype |-> "phuong_an", patterns |-> <<
      \* r"phuong an"
      <<<<112, 104, 432, 417, 110, 103, 32, 225, 110>>>>,
      \* r"giai phap"
      <<<<103, 105, 7843, 105, 32, 112, 104, 225, 112>>>>,
      \* r"cach khac"
      <<<<99, 225, 99, 104, 32, 107, 104, 225, 99>>>>,
      \* r"lua chon"
      <<<<108, 7921, 97, 32, 99, 104, 7885, 110>>>>,
      \* r"alternative"
      <<<<97, 108, 116, 101, 114, 110, 97, 116, 105, 118, 101>>>>,
      \* r"solution"
      <<<<115, 111, 108, 117, 116, 105, 111, 110>>>>
    >>]
  >>

\* The patterns of classify's inner loop, tried in order from index m.
RECURSIVE AnyPatternFrom(_, _, _)
AnyPatternFrom(pats, m, question_lower) ==
  IF m > Len(pats) THEN FALSE
  ELSE IF re_search(pats[m], question_lower) THEN TRUE
  ELSE AnyPatternFrom(pats, m + 1, question_lower)

\* classify's outer loop from the k-th (qtype, patterns) item on.
RECURSIVE ClassifyFrom(_, _)
ClassifyFrom(k, question_lower) ==
  IF k > Len(patterns) THEN "tom_tat"
  ELSE IF AnyPatternFrom(patterns[k].patterns, 1, question_lower)
       THEN patterns[k].qtype
  ELSE ClassifyFrom(k + 1, question_lower)

\* classify without question.lower(): a mutant of classify.
classify_case_sensitive(question) == ClassifyFrom(1, question)

classify(question) == ClassifyFrom(1, str_lower(question))

templates ==
  [ tom_tat |->
      [ structure |-> <<"title", "sections", "bullets", "conclusion">>,
        sections |-> <<3, 6>>,
        include_tables |-> FALSE,
        numbering |-> "roman" ],
    muc_tieu |->
      [ structure |-> <<"overview", "table", "metrics">>,
        include_tables |-> TRUE,
        numbering |-> "roman" ],
    cach_thuc_hien |->
      [ structure |-> <<"numbered_sections", "sub_bullets", "steps">>,
        sections |-> <<5, 8>>,
        numbering |-> "roman",
        include_tables |-> FALSE ],
    ke_hoach |->
      [ structure |-> <<"table", "timeline", "phases">>,
        include_tables |-> TRUE,
        \* table_columns: Nhiem vu, Hoat dong, Thoi gian, Can cu
        table_columns |->
          << <<78, 104, 105, 7879, 109, 32, 118, 7909>>,
             <<72, 111, 7841, 116, 32, 273, 7897, 110, 103>>,
             <<84, 104, 7901, 105, 32, 103, 105, 97, 110>>,
             <<67, 259, 110, 32, 99, 7913>> >> ],
    kho_khan |->
      [ structure |-> <<"sections", "bullets", "examples">>,
        sections |-> <<3, 5>>,
        numbering |-> "roman" ],
    ket_qua |->
      [ structure |-> <<"overview", "metrics", "bullets">>,
        include_tables |-> TRUE,
        numbering |-> "roman" ],
    so_sanh |->
      [ structure |-> <<"table", "analysis", "ranking">>,
        include_tables |-> TRUE,
        \* table_columns: Don vi, Chi tieu, Ket qua, Ghi chu
        table_columns |->
          << <<272, 417, 110, 32, 118, 7883>>,
             <<67, 104, 7881, 32, 116, 105, 234, 117>>,
             <<75, 7871, 116, 32, 113, 117, 7843>>,
             <<71, 104, 105, 32, 99, 104, 250>> >> ],
    goi_y |->
      [ structure |-> <<"sections", "action_items", "priority">>,
        sections |-> <<3, 5>>,
        numbering |-> "roman" ],
    hieu_qua |->
      [ structure |-> <<"overview", "metrics", "analysis">>,
        include_tables |-> TRUE,
        numbering |-> "roman" ],
    phuong_an |->
      [ structure |-> <<"options", "comparison", "recommendation">>,
        include_tables |-> TRUE,
        numbering |-> "arabic" ] ]

\* templates.get(question_type, templates["tom_tat"])
get_format_template(question_type) ==
  IF question_type \in DOMAIN templates
  THEN templates[question_type]
  ELSE templates["tom_tat"]

\* get_all_types(): list(self.patterns.keys())
get_all_types == [k \in 1..Len(patterns) |-> patterns[k].qtype]

----------------------------------------------------------------------------
(* summarizer.py: AISummarizer                                             *)

\* __init__: self.model is set for the two known providers only.
ProviderModel(provider) ==
  IF provider = "openai" THEN Some("gpt-4o-mini")
  ELSE IF provider = "claude" THEN Some("claude-3-5-sonnet-20241022")
  ELSE None

\* count_tokens: len(self.tokenizer.encode(text)) for openai, where
\* encoded_len is the length the tokenizer library gives; len(text) // 4
\* for claude; 0 otherwise.
count_tokens(provider, text, encoded_len) ==
  IF provider = "openai" THEN encoded_len
  ELSE IF provider = "claude" THEN Len(text) \div 4
  ELSE 0

\* base_prompt:
\*   Ban la mot chuyen gia phan tich va tom tat van ban tieng Viet.
\*   
\*   NHIEM VU: Tra loi cau hoi dua tren noi dung tai lieu duoc cung cap.
\*   
\*   YEU CAU FORMAT:
\*   
base_prompt ==
  << 66, 7841, 110, 32, 108, 224, 32, 109, 7897, 116, 32, 99, 104, 117, 121,
     234, 110, 32, 103, 105, 97, 32, 112, 104, 226, 110, 32, 116, 237, 99,
     104, 32, 118, 224, 32, 116, 243, 109, 32, 116, 7855, 116, 32, 118, 259,
     110, 32, 98, 7843, 110, 32, 116, 105, 7871, 110, 103, 32, 86, 105,
     7879, 116, 46, 10, 10, 78, 72, 73, 7878, 77, 32, 86, 7908, 58, 32, 84,
     114, 7843, 32, 108, 7901, 105, 32, 99, 226, 117, 32, 104, 7887, 105,
     32, 100, 7921, 97, 32, 116, 114, 234, 110, 32, 110, 7897, 105, 32, 100,
     117, 110, 103, 32, 116, 224, 105, 32, 108, 105, 7879, 117, 32, 273,
     432, 7907, 99, 32, 99, 117, 110, 103, 32, 99, 7845, 112, 46, 10, 10,
     89, 202, 85, 32, 67, 7846, 85, 32, 70, 79, 82, 77, 65, 84, 58, 10 >>

format_instructions ==
    \* format_instructions["tom_tat"]:
    \*   
    \*   - Cau truc: Tieu de + Cac phan (I, II, III...) + Bullets + Ket luan
    \*   - Dung heading ro rang (###)
    \*   - Moi phan co 3-6 bullets
    \*   - Do dai: 500-1000 tu
    \*   
  [ tom_tat |->
      << 10, 45, 32, 67, 7845, 117, 32, 116, 114, 250, 99, 58, 32, 84, 105, 234,
         117, 32, 273, 7873, 32, 43, 32, 67, 225, 99, 32, 112, 104, 7847, 110,
         32, 40, 73, 44, 32, 73, 73, 44, 32, 73, 73, 73, 46, 46, 46, 41, 32, 43,
         32, 66, 117, 108, 108, 101, 116, 115, 32, 43, 32, 75, 7871, 116, 32,
         108, 117, 7853, 110, 10, 45, 32, 68, 249, 110, 103, 32, 104, 101, 97,
         100, 105, 110, 103, 32, 114, 245, 32, 114, 224, 110, 103, 32, 40, 35,
         35, 35, 41, 10, 45, 32, 77, 7895, 105, 32, 112, 104, 7847, 110, 32, 99,
         243, 32, 51, 45, 54, 32, 98, 117, 108, 108, 101, 116, 115, 10, 45, 32,
         272, 7897, 32, 100, 224, 105, 58, 32, 53, 48, 48, 45, 49, 48, 48, 48,
         32, 116, 7915, 10 >>,
    \* format_instructions["muc_tieu"]:
    \*   
    \*   - Cau truc: Tong quan + Bang chi tieu + Giai thich
    \*   - Dung bang Markdown cho cac chi tieu cu the
    \*   - Highlight cac con so quan trong
    \*   - Do dai: 400-800 tu
    \*   
    muc_tieu |->
      << 10, 45, 32, 67, 7845, 117, 32, 116, 114, 250, 99, 58, 32, 84, 7893,
         110, 103, 32, 113, 117, 97, 110, 32, 43, 32, 66, 7843, 110, 103, 32,
         99, 104, 7881, 32, 116, 105, 234, 117, 32, 43, 32, 71, 105, 7843, 105,
         32, 116, 104, 237, 99, 104, 10, 45, 32, 68, 249, 110, 103, 32, 98,
         7843, 110, 103, 32, 77, 97, 114, 107, 100, 111, 119, 110, 32, 99, 104,
         111, 32, 99, 225, 99, 32, 99, 104, 7881, 32, 116, 105, 234, 117, 32,
         99, 7909, 32, 116, 104, 7875, 10, 45, 32, 72, 105, 103, 104, 108, 105,
         103, 104, 116, 32, 99, 225, 99, 32, 99, 111, 110, 32, 115, 7889, 32,
         113, 117, 97, 110, 32, 116, 114, 7885, 110, 103, 10, 45, 32, 272, 7897,
         32, 100, 224, 105, 58, 32, 52, 48, 48, 45, 56, 48, 48, 32, 116, 7915,
         10 >>,
    \* format_instructions["cach_thuc_hien"]:
    \*   
    \*   - Cau truc: Cac buoc thuc hien (I, II, III...)
    \*   - Moi buoc co sub-items cu the
    \*   - Dung so La Ma cho cac phan chinh
    \*   - Do dai: 800-1500 tu
    \*   
    cach_thuc_hien |->
      << 10, 45, 32, 67, 7845, 117, 32, 116, 114, 250, 99, 58, 32, 67, 225, 99,
         32, 98, 432, 7899, 99, 32, 116, 104, 7921, 99, 32, 104, 105, 7879, 110,
         32, 40, 73, 44, 32, 73, 73, 44, 32, 73, 73, 73, 46, 46, 46, 41, 10, 45,
         32, 77, 7895, 105, 32, 98, 432, 7899, 99, 32, 99, 243, 32, 115, 117,
         98, 45, 105, 116, 101, 109, 115, 32, 99, 7909, 32, 116, 104, 7875, 10,
         45, 32, 68, 249, 110, 103, 32, 115, 7889, 32, 76, 97, 32, 77, 227, 32,
         99, 104, 111, 32, 99, 225, 99, 32, 112, 104, 7847, 110, 32, 99, 104,
         237, 110, 104, 10, 45, 32, 272, 7897, 32, 100, 224, 105, 58, 32, 56,
         48, 48, 45, 49, 53, 48, 48, 32, 116, 7915, 10 >>,
    \* format_instructions["ke_hoach"]:
    \*   
    \*   - Cau truc: Bang ke hoach voi cot (Giai doan, Nhiem vu, Hoat dong, Thoi gian)
    \*   - Dung bang Markdown
    \*   - Co phan loai theo thoi gian/uu tien
    \*   - Do dai: 600-1000 tu
    \*   
    ke_hoach |->
      << 10, 45, 32, 67, 7845, 117, 32, 116, 114, 250, 99, 58, 32, 66, 7843,
         110, 103, 32, 107, 7871, 32, 104, 111, 7841, 99, 104, 32, 118, 7899,
         105, 32, 99, 7897, 116, 32, 40, 71, 105, 97, 105, 32, 273, 111, 7841,
         110, 44, 32, 78, 104, 105, 7879, 109, 32, 118, 7909, 44, 32, 72, 111,
         7841, 116, 32, 273, 7897, 110, 103, 44, 32, 84, 104, 7901, 105, 32,
         103, 105, 97, 110, 41, 10, 45, 32, 68, 249, 110, 103, 32, 98, 7843,
         110, 103, 32, 77, 97, 114, 107, 100, 111, 119, 110, 10, 45, 32, 67,
         243, 32, 112, 104, 226, 110, 32, 108, 111, 7841, 105, 32, 116, 104,
         101, 111, 32, 116, 104, 7901, 105, 32, 103, 105, 97, 110, 47, 432, 117,
         32, 116, 105, 234, 110, 10, 45, 32, 272, 7897, 32, 100, 224, 105, 58,
         32, 54, 48, 48, 45, 49, 48, 48, 48, 32, 116, 7915, 10 >>,
    \* format_instructions["kho_khan"]:
    \*   
    \*   - Cau truc: Cac nhom kho khan (I, II, III...)
    \*   - Moi nhom co bullets cu the + vi du
    \*   - Danh gia muc do nghiem trong
    \*   - Do dai: 500-900 tu
    \*   
    kho_khan |->
      << 10, 45, 32, 67, 7845, 117, 32, 116, 114, 250, 99, 58, 32, 67, 225, 99,
         32, 110, 104, 243, 109, 32, 107, 104, 243, 32, 107, 104, 259, 110, 32,
         40, 73, 44, 32, 73, 73, 44, 32, 73, 73, 73, 46, 46, 46, 41, 10, 45, 32,
         77, 7895, 105, 32, 110, 104, 243, 109, 32, 99, 243, 32, 98, 117, 108,
         108, 101, 116, 115, 32, 99, 7909, 32, 116, 104, 7875, 32, 43, 32, 118,
         237, 32, 100, 7909, 10, 45, 32, 272, 225, 110, 104, 32, 103, 105, 225,
         32, 109, 7913, 99, 32, 273, 7897, 32, 110, 103, 104, 105, 234, 109, 32,
         116, 114, 7885, 110, 103, 10, 45, 32, 272, 7897, 32, 100, 224, 105, 58,
         32, 53, 48, 48, 45, 57, 48, 48, 32, 116, 7915, 10 >>,
    \* format_instructions["ket_qua"]:
    \*   
    \*   - Cau truc: Tong quan + Bang so lieu + Phan tich
    \*   - Dung bang cho ket qua dinh luong
    \*   - Highlight thanh tich noi bat
    \*   - Do dai: 400-800 tu
    \*   
    ket_qua |->
      << 10, 45, 32, 67, 7845, 117, 32, 116, 114, 250, 99, 58, 32, 84, 7893,
         110, 103, 32, 113, 117, 97, 110, 32, 43, 32, 66, 7843, 110, 103, 32,
         115, 7889, 32, 108, 105, 7879, 117, 32, 43, 32, 80, 104, 226, 110, 32,
         116, 237, 99, 104, 10, 45, 32, 68, 249, 110, 103, 32, 98, 7843, 110,
         103, 32, 99, 104, 111, 32, 107, 7871, 116, 32, 113, 117, 7843, 32, 273,
         7883, 110, 104, 32, 108, 432, 7907, 110, 103, 10, 45, 32, 72, 105, 103,
         104, 108, 105, 103, 104, 116, 32, 116, 104, 224, 110, 104, 32, 116,
         237, 99, 104, 32, 110, 7893, 105, 32, 98, 7853, 116, 10, 45, 32, 272,
         7897, 32, 100, 224, 105, 58, 32, 52, 48, 48, 45, 56, 48, 48, 32, 116,
         7915, 10 >>,
    \* format_instructions["so_sanh"]:
    \*   
    \*   - Cau truc: Bang so sanh + Phan tich + Xep hang
    \*   - Dung bang Markdown voi nhieu cot
    \*   - Co ket luan ro rang
    \*   - Do dai: 500-900 tu
    \*   
    so_sanh |->
      << 10, 45, 32, 67, 7845, 117, 32, 116, 114, 250, 99, 58, 32, 66, 7843,
         110, 103, 32, 115, 111, 32, 115, 225, 110, 104, 32, 43, 32, 80, 104,
         226, 110, 32, 116, 237, 99, 104, 32, 43, 32, 88, 7871, 112, 32, 104,
         7841, 110, 103, 10, 45, 32, 68, 249, 110, 103, 32, 98, 7843, 110, 103,
         32, 77, 97, 114, 107, 100, 111, 119, 110, 32, 118, 7899, 105, 32, 110,
         104, 105, 7873, 117, 32, 99, 7897, 116, 10, 45, 32, 67, 243, 32, 107,
         7871, 116, 32, 108, 117, 7853, 110, 32, 114, 245, 32, 114, 224, 110,
         103, 10, 45, 32, 272, 7897, 32, 100, 224, 105, 58, 32, 53, 48, 48, 45,
         57, 48, 48, 32, 116, 7915, 10 >>,
    \* format_instructions["goi_y"]:
    \*   
    \*   - Cau truc: Cac nhom goi y (I, II, III...)
    \*   - Moi goi y co hanh dong cu the
    \*   - Phan loai theo do uu tien
    \*   - Do dai: 600-1000 tu
    \*   
    goi_y |->
      << 10, 45, 32, 67, 7845, 117, 32, 116, 114, 250, 99, 58, 32, 67, 225, 99,
         32, 110, 104, 243, 109, 32, 103, 7907, 105, 32, 253, 32, 40, 73, 44,
         32, 73, 73, 44, 32, 73, 73, 73, 46, 46, 46, 41, 10, 45, 32, 77, 7895,
         105, 32, 103, 7907, 105, 32, 253, 32, 99, 243, 32, 104, 224, 110, 104,
         32, 273, 7897, 110, 103, 32, 99, 7909, 32, 116, 104, 7875, 10, 45, 32,
         80, 104, 226, 110, 32, 108, 111, 7841, 105, 32, 116, 104, 101, 111, 32,
         273, 7897, 32, 432, 117, 32, 116, 105, 234, 110, 10, 45, 32, 272, 7897,
         32, 100, 224, 105, 58, 32, 54, 48, 48, 45, 49, 48, 48, 48, 32, 116,
         7915, 10 >>,
    \* format_instructions["hieu_qua"]:
    \*   
    \*   - Cau truc: Tong quan + Cac khia canh hieu qua + So lieu
    \*   - Dung bang cho so lieu dinh luong
    \*   - Phan tich cu the
    \*   - Do dai: 600-1000 tu
    \*   
    hieu_qua |->
      << 10, 45, 32, 67, 7845, 117, 32, 116, 114, 250, 99, 58, 32, 84, 7893,
         110, 103, 32, 113, 117, 97, 110, 32, 43, 32, 67, 225, 99, 32, 107, 104,
         237, 97, 32, 99, 7841, 110, 104, 32, 104, 105, 7879, 117, 32, 113, 117,
         7843, 32, 43, 32, 83, 7889, 32, 108, 105, 7879, 117, 10, 45, 32, 68,
         249, 110, 103, 32, 98, 7843, 110, 103, 32, 99, 104, 111, 32, 115, 7889,
         32, 108, 105, 7879, 117, 32, 273, 7883, 110, 104, 32, 108, 432, 7907,
         110, 103, 10, 45, 32, 80, 104, 226, 110, 32, 116, 237, 99, 104, 32, 99,
         7909, 32, 116, 104, 7875, 10, 45, 32, 272, 7897, 32, 100, 224, 105, 58,
         32, 54, 48, 48, 45, 49, 48, 48, 48, 32, 116, 7915, 10 >>,
    \* format_instructions["phuong_an"]:
    \*   
    \*   - Cau truc: Liet ke phuong an + So sanh uu/nhuoc + Khuyen nghi
    \*   - Dung bang so sanh neu can
    \*   - Danh gia ro rang
    \*   - Do dai: 700-1200 tu
    \*   
    phuong_an |->
      << 10, 45, 32, 67, 7845, 117, 32, 116, 114, 250, 99, 58, 32, 76, 105,
         7879, 116, 32, 107, 234, 32, 112, 104, 432, 417, 110, 103, 32, 225,
         110, 32, 43, 32, 83, 111, 32, 115, 225, 110, 104, 32, 432, 117, 47,
         110, 104, 432, 7907, 99, 32, 43, 32, 75, 104, 117, 121, 7871, 110, 32,
         110, 103, 104, 7883, 10, 45, 32, 68, 249, 110, 103, 32, 98, 7843, 110,
         103, 32, 115, 111, 32, 115, 225, 110, 104, 32, 110, 7871, 117, 32, 99,
         7847, 110, 10, 45, 32, 272, 225, 110, 104, 32, 103, 105, 225, 32, 114,
         245, 32, 114, 224, 110, 103, 10, 45, 32, 272, 7897, 32, 100, 224, 105,
         58, 32, 55, 48, 48, 45, 49, 50, 48, 48, 32, 116, 7915, 10 >> ]
\* _build_system_prompt:
\* base_prompt + format_instructions.get(question_type, ...["tom_tat"])
_build_system_prompt(question_type) ==
  base_prompt \o
    (IF question_type \in DOMAIN format_instructions
     THEN format_instructions[question_type]
     ELSE format_instructions["tom_tat"])

max_doc_length == 15000

\* The continuation marker: "\n\n[...Tai lieu con tiep...]"
ContinuationMarker ==
  << 10, 10, 91, 46, 46, 46, 84, 224, 105, 32, 108, 105, 7879, 117, 32, 99,
     242, 110, 32, 116, 105, 7871, 112, 46, 46, 46, 93 >>

\* "NOI DUNG TAI LIEU:\n"
PromptHead ==
  << 78, 7896, 73, 32, 68, 85, 78, 71, 32, 84, 192, 73, 32, 76, 73, 7878,
     85, 58, 10 >>

\* "\n\n---\n\nCAU HOI: "
PromptQuestionLabel ==
  << 10, 10, 45, 45, 45, 10, 10, 67, 194, 85, 32, 72, 7886, 73, 58, 32 >>

\* "\n\nLOAI CAU HOI: "
PromptTypeLabel ==
  << 10, 10, 76, 79, 7840, 73, 32, 67, 194, 85, 32, 72, 7886, 73, 58, 32 >>

\* "\n\nHay tra loi cau hoi dua tren noi dung tai lieu theo dung format
\*  yeu cau."
PromptTail ==
  << 10, 10, 72, 227, 121, 32, 116, 114, 7843, 32, 108, 7901, 105, 32, 99,
     226, 117, 32, 104, 7887, 105, 32, 100, 7921, 97, 32, 116, 114, 234,
     110, 32, 110, 7897, 105, 32, 100, 117, 110, 103, 32, 116, 224, 105,
     32, 108, 105, 7879, 117, 32, 116, 104, 101, 111, 32, 273, 250, 110,
     103, 32, 102, 111, 114, 109, 97, 116, 32, 121, 234, 117, 32, 99, 7847,
     117, 46 >>

\* The characters of a question_type string, as str.format writes them.
TypeText(question_type) ==
  CASE question_type = "tom_tat" -> <<116, 111, 109, 95, 116, 97, 116>>
    [] question_type = "muc_tieu" -> <<109, 117, 99, 95, 116, 105, 101, 117>>
    [] question_type = "cach_thuc_hien" ->
         <<99, 97, 99, 104, 95, 116, 104, 117, 99, 95, 104, 105, 101, 110>>
    [] question_type = "ke_hoach" -> <<107, 101, 95, 104, 111, 97, 99, 104>>
    [] question_type = "kho_khan" -> <<107, 104, 111, 95, 107, 104, 97, 110>>
    [] question_type = "ket_qua" -> <<107, 101, 116, 95, 113, 117, 97>>
    [] question_type = "so_sanh" -> <<115, 111, 95, 115, 97, 110, 104>>
    [] question_type = "goi_y" -> <<103, 111, 105, 95, 121>>
    [] question_type = "hieu_qua" -> <<104, 105, 101, 117, 95, 113, 117, 97>>
    [] question_type = "phuong_an" ->
         <<112, 104, 117, 111, 110, 103, 95, 97, 110>>
    [] question_type = "" -> <<>>
    [] question_type = "summary" -> <<115, 117, 109, 109, 97, 114, 121>>
    [] question_type = "TOM_TAT" -> <<84, 79, 77, 95, 84, 65, 84>>

\* document[:n]
Prefix(document, n) ==
  IF Len(document) <= n THEN document ELSE SubSeq(document, 1, n)

\* document[n:]
Suffix(document, n) ==
  IF Len(document) <= n THEN <<>> ELSE SubSeq(document, n + 1, Len(document))

\* Mutants of truncate_document: ">=" for ">"; the marker appended whatever
\* the length; document[max_doc_length:] for document[:max_doc_length].
truncate_document_geq(document) ==
  IF Len(document) >= max_doc_length
  THEN Prefix(document, max_doc_length) \o ContinuationMarker
  ELSE document

truncate_document_always(document) ==
  Prefix(document, max_doc_length) \o ContinuationMarker

truncate_document_tail(document) ==
  IF Len(document) > max_doc_length
  THEN Suffix(document, max_doc_length) \o ContinuationMarker
  ELSE document

\* _build_user_prompt, the local variable document after the truncation.
truncate_document(document) ==
  IF Len(document) > max_doc_length
  THEN Prefix(document, max_doc_length) \o ContinuationMarker
  ELSE document

\* _build_user_prompt: the f-string around the truncated document.
_build_user_prompt(document, question, question_type) ==
  PromptHead \o truncate_document(document) \o PromptQuestionLabel
    \o question \o PromptTypeLabel \o TypeText(question_type) \o PromptTail

----------------------------------------------------------------------------
(* summarizer.py: the call of the LLM backend.                             *)
(*                                                                         *)
(* The backend is the sequence of its answers to the successive calls of   *)
(* one invocation.  An answer is a response, with the generated content    *)
(* (None when the message has none) and the usage object (None when the    *)
(* backend sends none), or a failure of the call (transport, auth, rate    *)
(* limit), which the client library raises.                                *)
(* A function result is [raised, value, error, requests]: the value        *)
(* returned or the exception raised, and the requests sent to the backend. *)

max_tokens_default == 4000

Response(content, usage) ==
  [ok |-> TRUE, failure |-> "", content |-> content, usage |-> usage]

Failure(kind) ==
  [ok |-> FALSE, failure |-> kind, content |-> None, usage |-> None]

Returned(value, requests) ==
  [raised |-> FALSE, value |-> Some(value), error |-> None,
   requests |-> requests]

\* raise type(message): the message is the sequence of its pieces.
Raised(type, message, requests) ==
  [raised |-> TRUE, value |-> None,
   error |-> Some([type |-> type, message |-> message]),
   requests |-> requests]

ChatRequest(model, system_prompt, user_prompt, max_tokens) ==
  [model |-> model, system |-> system_prompt, user |-> user_prompt,
   max_tokens |-> max_tokens, temperature |-> "0.3"]

\* A mutant of _summarize_openai: a failed call is made once more.
_summarize_openai_retry(model, system_prompt, user_prompt, max_tokens, backend) ==
  LET request == ChatRequest(model, system_prompt, user_prompt, max_tokens)
      first == backend[1]
      response == IF first.ok THEN first ELSE backend[2]
      requests == IF first.ok THEN <<request>> ELSE <<request, request>>
  IN  IF ~response.ok
      THEN Raised("Exception", <<"OpenAI API error: ", response.failure>>,
                  requests)
      ELSE IF response.usage = None
      THEN Raised("Exception", <<"OpenAI API error: ", "AttributeError">>,
                  requests)
      ELSE Returned([answer |-> response.content,
                     usage |->
                       [input_tokens |-> response.usage[1].prompt_tokens,
                        output_tokens |-> response.usage[1].completion_tokens,
                        total_tokens |-> response.usage[1].total_tokens],
                     model |-> model,
                     provider |-> "openai"], requests)

\* _summarize_openai: one chat.completions.create call inside try; any
\* exception, of the call or of reading the response, is raised again as
\* Exception("OpenAI API error: ...").
_summarize_openai(model, system_prompt, user_prompt, max_tokens, backend) ==
  LET request == ChatRequest(model, system_prompt, user_prompt, max_tokens)
      response == backend[1]
  IN  IF ~response.ok
      THEN Raised("Exception", <<"OpenAI API error: ", response.failure>>,
                  <<request>>)
      ELSE IF response.usage = None
      THEN Raised("Exception", <<"OpenAI API error: ", "AttributeError">>,
                  <<request>>)
      ELSE Returned([answer |-> response.content,
                     usage |->
                       [input_tokens |-> response.usage[1].prompt_tokens,
                        output_tokens |-> response.usage[1].completion_tokens,
                        total_tokens |-> response.usage[1].total_tokens],
                     model |-> model,
                     provider |-> "openai"], <<request>>)

\* _summarize_claude: one messages.create call inside try; the usage object
\* has input_tokens and output_tokens, and the total is their sum.
_summarize_claude(model, system_prompt, user_prompt, max_tokens, backend) ==
  LET request == ChatRequest(model, system_prompt, user_prompt, max_tokens)
      response == backend[1]
  IN  IF ~response.ok
      THEN Raised("Exception", <<"Claude API error: ", response.failure>>,
                  <<request>>)
      ELSE IF response.usage = None
      THEN Raised("Exception", <<"Claude API error: ", "AttributeError">>,
                  <<request>>)
      ELSE Returned([answer |-> response.content,
                     usage |->
                       [input_tokens |-> response.usage[1].prompt_tokens,
                        output_tokens |-> response.usage[1].completion_tokens,
                        total_tokens |->
                          response.usage[1].prompt_tokens
                            + response.usage[1].completion_tokens],
                     model |-> model,
                     provider |-> "claude"], <<request>>)

\* summarize, lines 71-73: the estimate fills in a missing input_tokens.
WithInputTokens(result, input_tokens_estimate) ==
  IF result.raised \/ "input_tokens" \in DOMAIN result.value[1].usage
  THEN result
  ELSE [result EXCEPT !.value =
          Some([result.value[1] EXCEPT !.usage =
                  [k \in DOMAIN result.value[1].usage \cup {"input_tokens"} |->
                     IF k = "input_tokens" THEN input_tokens_estimate
                     ELSE result.value[1].usage[k]]])]

\* summarize with every provider but "claude" sent to the OpenAI client.
summarize_openai_otherwise(provider, document_content, question, question_type, max_tokens, backend, encoded_len) ==
  LET system_prompt == _build_system_prompt(question_type)
      user_prompt ==
        _build_user_prompt(document_content, question, question_type)
      input_tokens_estimate ==
        count_tokens(provider, system_prompt \o user_prompt, encoded_len)
  IN  IF provider = "claude"
      THEN WithInputTokens(
             _summarize_claude(ProviderModel(provider)[1], system_prompt,
                               user_prompt, max_tokens, backend),
             input_tokens_estimate)
      ELSE WithInputTokens(
             _summarize_openai(ProviderModel("openai")[1], system_prompt,
                               user_prompt, max_tokens, backend),
             input_tokens_estimate)

\* summarize: the prompts, the estimate, the dispatch on self.provider.
summarize(provider, document_content, question, question_type, max_tokens, backend, encoded_len) ==
  LET system_prompt == _build_system_prompt(question_type)
      user_prompt ==
        _build_user_prompt(document_content, question, question_type)
      input_tokens_estimate ==
        count_tokens(provider, system_prompt \o user_prompt, encoded_len)
  IN  IF provider = "openai"
      THEN WithInputTokens(
             _summarize_openai(ProviderModel(provider)[1], system_prompt,
                               user_prompt, max_tokens, backend),
             input_tokens_estimate)
      ELSE IF provider = "claude"
      THEN WithInputTokens(
             _summarize_claude(ProviderModel(provider)[1], system_prompt,
                               user_prompt, max_tokens, backend),
             input_tokens_estimate)
      ELSE Raised("ValueError", <<"Unsupported provider: ", provider>>, <<>>)

----------------------------------------------------------------------------
(* parsers.py: DocumentParser                                              *)
(*                                                                         *)
(* A stored file is None when the path does not exist, and else Some of    *)
(* what the libraries find in it:                                          *)
(*   pdf   [readable, rasterizable, pages], a page being [text, ocr]:      *)
(*         text is Some(what extract_text returns) or None when it raises, *)
(*         ocr is Some(what image_to_string returns) or None when it       *)
(*         raises; readable: PyPDF2 opens the file; rasterizable:          *)
(*         convert_from_path succeeds                                      *)
(*   docx  [readable, paragraphs, rows], a row being its cells' texts      *)
(*   xlsx  [readable, sheets], a sheet being [name, empty, rendered]       *)
(*   txt   [bytes]                                                         *)
(* A parser result is [raised, value, error, phases]; phases lists the     *)
(* extraction methods that were run, in order.                             *)

\* str.isspace() of one character
IsSpace(c) ==
  \/ c \in 9..13
  \/ c \in 28..32
  \/ c \in {133, 160, 5760, 8232, 8233, 8239, 8287, 12288}
  \/ c \in 8192..8202

\* str.strip()
strip(s) ==
  LET keep == {i \in 1..Len(s) : ~IsSpace(s[i])}
  IN  IF keep = {} THEN <<>>
      ELSE SubSeq(s, CHOOSE i \in keep : \A j \in keep : i <= j,
                     CHOOSE i \in keep : \A j \in keep : j <= i)

ParseReturned(value, phases) ==
  [raised |-> FALSE, value |-> Some(value), error |-> None,
   phases |-> phases]

ParseRaised(type, message, phases) ==
  [raised |-> TRUE, value |-> None,
   error |-> Some([type |-> type, message |-> message]), phases |-> phases]

\* The text threshold of _parse_pdf.
meaningful_text_length == 100

\* _parse_pdf_text, the loop over pdf_reader.pages from page k on.
RECURSIVE PdfTextFrom(_, _)
PdfTextFrom(pages, k) ==
  IF k > Len(pages) THEN <<>>
  ELSE LET page_text == pages[k].text
       IN  (IF /\ page_text # None
               /\ page_text[1] # <<>>
               /\ Len(strip(page_text[1])) > 0
            THEN page_text[1] \o <<10>>
            ELSE <<>>)
             \o PdfTextFrom(pages, k + 1)

\* _parse_pdf_text: "" when the file cannot be opened or read as a PDF.
_parse_pdf_text(file) ==
  IF file = None \/ ~file[1].readable THEN <<>>
  ELSE PdfTextFrom(file[1].pages, 1)

\* _parse_pdf_with_ocr, the loop over images from page k on: Some(text), or
\* None when image_to_string raises.
RECURSIVE OcrTextFrom(_, _)
OcrTextFrom(pages, k) ==
  IF k > Len(pages) THEN Some(<<>>)
  ELSE IF pages[k].ocr = None THEN None
  ELSE LET rest == OcrTextFrom(pages, k + 1)
       IN  IF rest = None THEN None
           ELSE Some(pages[k].ocr[1] \o <<10, 10>> \o rest[1])

\* _parse_pdf_with_ocr
_parse_pdf_with_ocr(file) ==
  IF file = None \/ ~file[1].rasterizable
  THEN ParseRaised("Exception", <<"OCR failed: ", "convert_from_path">>,
                   <<"ocr">>)
  ELSE LET text == OcrTextFrom(file[1].pages, 1)
       IN  IF text = None
           THEN ParseRaised("Exception",
                            <<"OCR failed: ", "image_to_string">>, <<"ocr">>)
           ELSE ParseReturned(text[1], <<"ocr">>)

CouldNotExtract ==
  <<"Could not extract text from PDF using any method">>

\* _parse_pdf
_parse_pdf(file, ocr_available) ==
  LET text == _parse_pdf_text(file)
  IN  IF text # <<>> /\ Len(strip(text)) > meaningful_text_length
      THEN ParseReturned(strip(text), <<"primary">>)
      ELSE IF ocr_available
      THEN LET ocr == _parse_pdf_with_ocr(file)
           IN  IF ocr.raised
               THEN ParseRaised(ocr.error[1].type, ocr.error[1].message,
                                <<"primary", "ocr">>)
               ELSE IF ocr.value[1] # <<>>
               THEN ParseReturned(strip(ocr.value[1]), <<"primary", "ocr">>)
               ELSE ParseRaised("Exception", CouldNotExtract,
                                <<"primary", "ocr">>)
      ELSE ParseRaised("Exception", CouldNotExtract, <<"primary">>)

\* sep.join(texts) from the k-th text on
RECURSIVE JoinFrom(_, _, _)
JoinFrom(sep, texts, k) ==
  IF k > Len(texts) THEN <<>>
  ELSE IF k = Len(texts) THEN texts[k]
  ELSE texts[k] \o sep \o JoinFrom(sep, texts, k + 1)

\* _parse_docx, the loop over doc.paragraphs
RECURSIVE DocxParagraphsFrom(_, _)
DocxParagraphsFrom(paragraphs, k) ==
  IF k > Len(paragraphs) THEN <<>>
  ELSE (IF strip(paragraphs[k]) # <<>> THEN paragraphs[k] \o <<10>>
        ELSE <<>>)
         \o DocxParagraphsFrom(paragraphs, k + 1)

\* _parse_docx, the loops over the rows of doc.tables; " | " is 32 124 32
RECURSIVE DocxRowsFrom(_, _)
DocxRowsFrom(rows, k) ==
  IF k > Len(rows) THEN <<>>
  ELSE LET row_text == JoinFrom(<<32, 124, 32>>, rows[k], 1)
       IN  (IF strip(row_text) # <<>> THEN row_text \o <<10>> ELSE <<>>)
             \o DocxRowsFrom(rows, k + 1)

\* _parse_docx: every exception, the ValueError of an empty text too, is
\* raised again as Exception("Error parsing DOCX: ...").
_parse_docx(file) ==
  IF file = None \/ ~file[1].readable
  THEN ParseRaised("Exception", <<"Error parsing DOCX: ", "Document">>,
                   <<"docx">>)
  ELSE LET text == DocxParagraphsFrom(file[1].paragraphs, 1)
                     \o DocxRowsFrom(file[1].rows, 1)
       IN  IF strip(text) = <<>>
           THEN ParseRaised("Exception",
                            <<"Error parsing DOCX: ",
                              "No text content found in DOCX">>, <<"docx">>)
           ELSE ParseReturned(strip(text), <<"docx">>)

\* "\n=== Sheet: " and " ===\n"
SheetMarkerOpen == <<10, 61, 61, 61, 32, 83, 104, 101, 101, 116, 58, 32>>

SheetMarkerClose == <<32, 61, 61, 61, 10>>

\* _parse_xlsx, the loop over excel_file.sheet_names; rendered is
\* df.to_string(index=False).
RECURSIVE XlsxSheetsFrom(_, _)
XlsxSheetsFrom(sheets, k) ==
  IF k > Len(sheets) THEN <<>>
  ELSE (IF sheets[k].empty THEN <<>>
        ELSE SheetMarkerOpen \o sheets[k].name \o SheetMarkerClose
               \o sheets[k].rendered \o <<10>>)
         \o XlsxSheetsFrom(sheets, k + 1)

\* _parse_xlsx
_parse_xlsx(file) ==
  IF file = None \/ ~file[1].readable
  THEN ParseRaised("Exception", <<"Error parsing Excel: ", "ExcelFile">>,
                   <<"xlsx">>)
  ELSE LET text == XlsxSheetsFrom(file[1].sheets, 1)
       IN  IF strip(text) = <<>>
           THEN ParseRaised("Exception",
                            <<"Error parsing Excel: ",
                              "No data found in Excel file">>, <<"xlsx">>)
           ELSE ParseReturned(strip(text), <<"xlsx">>)

\* The bytes b[j] that continue a UTF-8 sequence.
IsContinuation(b, j) == j <= Len(b) /\ b[j] \in 128..191

\* bytes.decode("utf-8") from byte i on: Some(text), or None when the
\* codec raises UnicodeDecodeError.
RECURSIVE utf8_decode(_, _)
utf8_decode(b, i) ==
  IF i > Len(b) THEN Some(<<>>)
  ELSE
    LET b0 == b[i]
        width == IF b0 < 128 THEN 1
                 ELSE IF b0 \in 194..223 THEN 2
                 ELSE IF b0 \in 224..239 THEN 3
                 ELSE IF b0 \in 240..244 THEN 4
                 ELSE 0
        valid ==
          \/ width = 1
          \/ width = 2 /\ IsContinuation(b, i + 1)
          \/ /\ width = 3
             /\ IsContinuation(b, i + 1)
             /\ IsContinuation(b, i + 2)
             /\ (b0 = 224 => b[i + 1] >= 160)
             /\ (b0 = 237 => b[i + 1] <= 159)
          \/ /\ width = 4
             /\ IsContinuation(b, i + 1)
             /\ IsContinuation(b, i + 2)
             /\ IsContinuation(b, i + 3)
             /\ (b0 = 240 => b[i + 1] >= 144)
             /\ (b0 = 244 => b[i + 1] <= 143)
        code ==
          IF width = 1 THEN b0
          ELSE IF width = 2 THEN (b0 - 192) * 64 + (b[i + 1] - 128)
          ELSE IF width = 3
          THEN (b0 - 224) * 4096 + (b[i + 1] - 128) * 64 + (b[i + 2] - 128)
          ELSE (b0 - 240) * 262144 + (b[i + 1] - 128) * 4096
                 + (b[i + 2] - 128) * 64 + (b[i + 3] - 128)
    IN  IF ~valid THEN None
        ELSE LET rest == utf8_decode(b, i + width)
             IN  IF rest = None THEN None ELSE Some(<<code>> \o rest[1])

\* The cp1252 code points of the bytes 128..159; 0 where the codec has no
\* character (129, 141, 143, 144, 157).
cp1252_high ==
  << 8364, 0, 8218, 402, 8222, 8230, 8224, 8225, 710, 8240, 352, 8249, 338,
     0, 381, 0, 0, 8216, 8217, 8220, 8221, 8226, 8211, 8212, 732, 8482, 353,
     8250, 339, 0, 382, 376 >>

\* bytes.decode("cp1252")
cp1252_decode(b) ==
  IF \E i \in 1..Len(b) : b[i] \in 128..159 /\ cp1252_high[b[i] - 127] = 0
  THEN None
  ELSE Some([i \in 1..Len(b) |->
               IF b[i] \in 128..159 THEN cp1252_high[b[i] - 127] ELSE b[i]])

\* bytes.decode(encoding); latin-1 and iso-8859-1 are one codec, under
\* which every byte is the character of its value.
decode(encoding, b) ==
  IF encoding = "utf-8" THEN utf8_decode(b, 1)
  ELSE IF encoding = "cp1252" THEN cp1252_decode(b)
  ELSE Some(b)

\* Text-mode reading (newline=None): "\r\n" and "\r" become "\n".
RECURSIVE universal_newlines(_, _)
universal_newlines(s, i) ==
  IF i > Len(s) THEN <<>>
  ELSE IF s[i] = 13 /\ i < Len(s) /\ s[i + 1] = 10
  THEN <<10>> \o universal_newlines(s, i + 2)
  ELSE IF s[i] = 13 THEN <<10>> \o universal_newlines(s, i + 1)
  ELSE <<s[i]>> \o universal_newlines(s, i + 1)

encodings == <<"utf-8", "latin-1", "cp1252", "iso-8859-1">>

\* _parse_txt, the loop over the encodings from the k-th on: an encoding
\* under which open or read raises, or that gives a blank content, is
\* passed over.
RECURSIVE TxtFrom(_, _)
TxtFrom(file, k) ==
  IF k > Len(encodings)
  THEN ParseRaised("Exception", <<"Could not decode text file">>, <<>>)
  ELSE LET decoded == IF file = None THEN None
                      ELSE decode(encodings[k], file[1].bytes)
           content == strip(universal_newlines(decoded[1], 1))
       IN  IF decoded # None /\ content # <<>>
           THEN ParseReturned(content, <<encodings[k]>>)
           ELSE TxtFrom(file, k + 1)

\* _parse_txt
_parse_txt(file) == TxtFrom(file, 1)

\* The suffixes ".pdf", ".docx", ".xlsx", ".xls", ".txt"
SuffixPdf == <<46, 112, 100, 102>>

SuffixDocx == <<46, 100, 111, 99, 120>>

SuffixXlsx == <<46, 120, 108, 115, 120>>

SuffixXls == <<46, 120, 108, 115>>

SuffixTxt == <<46, 116, 120, 116>>

NoTextContent ==
  <<"No text content could be extracted from ",
    ". If this is a scanned PDF, make sure OCR libraries are installed.">>

\* parse, the check of the content a format's parser returned.
CheckContent(result) ==
  IF result.raised THEN result
  ELSE IF result.value[1] = <<>> \/ Len(strip(result.value[1])) = 0
  THEN ParseRaised("ValueError", NoTextContent, result.phases)
  ELSE result

SupportedSuffixes ==
  {SuffixPdf, SuffixDocx, SuffixXlsx, SuffixXls, SuffixTxt}

\* parse, the parser function the parsers dict has for ext, applied.
parser_func(ext, file, ocr_available) ==
  IF ext = SuffixPdf THEN _parse_pdf(file, ocr_available)
  ELSE IF ext = SuffixDocx THEN _parse_docx(file)
  ELSE IF ext \in {SuffixXlsx, SuffixXls} THEN _parse_xlsx(file)
  ELSE _parse_txt(file)

\* A mutant of parse: the content is returned unchecked.
parse_unchecked(suffix, file, ocr_available) ==
  LET ext == str_lower(suffix)
  IN  IF ext \notin SupportedSuffixes
      THEN ParseRaised("ValueError", <<"Unsupported file type: ", ext>>, <<>>)
      ELSE parser_func(ext, file, ocr_available)

\* parse: suffix is file_path.suffix, file what the path holds.
parse(suffix, file, ocr_available) ==
  LET ext == str_lower(suffix)
  IN  IF ext \notin SupportedSuffixes
      THEN ParseRaised("ValueError", <<"Unsupported file type: ", ext>>, <<>>)
      ELSE CheckContent(parser_func(ext, file, ocr_available))

----------------------------------------------------------------------------
(* main.py: summarize_document                                             *)
(*                                                                         *)
(* An upload is [filename, body, removable], the body being what the       *)
(* libraries find in the file once it is stored, and removable whether     *)
(* os.remove of the stored file succeeds.  The upload directory maps a     *)
(* file name to Some(body), or to None when there is no such file.         *)
(* The result of summarize_document is [raised, value, error, dir, steps]: *)
(* the response returned or the HTTPException raised, the upload directory *)
(* when the function is left, and the stages that were run, in order.      *)
(* Of the response the fields success, document_name, question,            *)
(* question_type, usage, model_info and metadata.file_type are kept.       *)

\* Path(name).suffix, for a name without a directory separator
path_suffix(name) ==
  LET dots == {i \in 2..(Len(name) - 1) : name[i] = 46}
  IN  IF dots = {} THEN <<>>
      ELSE SubSeq(name, CHOOSE i \in dots : \A j \in dots : j <= i,
                  Len(name))

allowed_exts == <<SuffixPdf, SuffixDocx, SuffixXlsx, SuffixXls, SuffixTxt>>

HTTPException(status_code, detail) ==
  [type |-> "HTTPException", status_code |-> status_code, detail |-> detail]

\* str(status_code)
StatusText(status_code) == IF status_code = 400 THEN "400" ELSE "500"

\* str(e) of an exception, as the pieces of the text; that of an
\* HTTPException is "<status_code>: <detail>".
StrOf(e) ==
  IF e.type = "HTTPException"
  THEN <<StatusText(e.status_code), ": ">> \o e.detail
  ELSE e.message

PipelineReturned(value, dir, steps) ==
  [raised |-> FALSE, value |-> Some(value), error |-> None, dir |-> dir,
   steps |-> steps]

\* except Exception as e: raise HTTPException(status_code=500,
\* detail=str(e)), after which finally has left dir.
PipelineRaised(e, dir, steps) ==
  [raised |-> TRUE, value |-> None,
   error |-> Some(HTTPException(500, StrOf(e))), dir |-> dir,
   steps |-> steps]

\* finally: the stored file is removed if it exists; an os.remove that
\* raises is passed over and the file stays.
Removed(dir, file) ==
  IF file.removable THEN [dir EXCEPT ![file.filename] = None] ELSE dir

\* formatter.format(answer, question_type) raises when answer is not a
\* string: re.sub gets None.
FormatRaises(answer) == answer = None

\* The stages of summarize_document with "# 7. Format response" before
\* "# 6. Calculate cost".
stages_format_first ==
  <<"save", "parse", "question_type", "summarize", "format", "cost">>

\* The stages of summarize_document after the check of the extension, in
\* the order of its statements: "# 2. Save file", "# 3. Parse document",
\* "# 4. Classify question", "# 5. Generate summary with AI",
\* "# 6. Calculate cost", "# 7. Format response".
stages ==
  <<"save", "parse", "question_type", "summarize", "cost", "format">>

\* "# 2. Save file": the upload directory with the upload stored under
\* its own name.
Saved(dir, file) == [dir EXCEPT ![file.filename] = Some(file.body)]

\* summarize_document from "# 3. Parse document" on, saved being the upload
\* directory as the parser finds it; summarizer is AISummarizer(), of
\* provider "openai".
summarize_saved(file, question, question_type, saved, ocr_available, backend, encoded_len) ==
  LET file_ext == str_lower(path_suffix(file.filename))
      left == Removed(saved, file)
      parsed ==
        parse(path_suffix(file.filename), saved[file.filename], ocr_available)
      document_content == parsed.value[1]
      qtype ==
        IF question_type = None \/ question_type[1] = ""
        THEN classify(question)
        ELSE question_type[1]
      result ==
        summarize("openai", document_content, question, qtype,
                  max_tokens_default, backend, encoded_len)
  IN  IF parsed.raised
      THEN PipelineRaised(parsed.error[1], left, SubSeq(stages, 1, 2))
      ELSE IF document_content = <<>>
      THEN PipelineRaised(
             HTTPException(400, <<"Cannot extract content from document">>),
             left, SubSeq(stages, 1, 2))
      ELSE IF result.raised
      THEN PipelineRaised(result.error[1], left,
                          SubSeq(stages, 1, 4))
      ELSE IF FormatRaises(result.value[1].answer)
      THEN PipelineRaised(
             [type |-> "TypeError",
              message |-> <<"expected string or bytes-like object">>],
             left,
             stages)
      ELSE PipelineReturned(
             [success |-> TRUE,
              document_name |-> file.filename,
              question |-> question,
              question_type |-> qtype,
              usage |-> result.value[1].usage,
              model_info |-> [provider |-> result.value[1].provider,
                              model |-> result.value[1].model],
              file_type |-> file_ext],
             left,
             stages)

\* summarize_document without "# 1. Validate file".
summarize_document_unvalidated(file, question, question_type, dir, ocr_available, backend, encoded_len) ==
  summarize_saved(file, question, question_type, Saved(dir, file),
                  ocr_available, backend, encoded_len)

summarize_document(file, question, question_type, dir, ocr_available, backend, encoded_len) ==
  LET file_ext == str_lower(path_suffix(file.filename))
  IN  IF \A i \in DOMAIN allowed_exts : allowed_exts[i] # file_ext
      THEN PipelineRaised(
             HTTPException(400, <<"File type not supported. Allowed: ",
                                  allowed_exts>>), dir, <<>>)
      ELSE summarize_saved(file, question, question_type,
                           Saved(dir, file), ocr_available, backend,
                           encoded_len)

----------------------------------------------------------------------------
(* main.py: batch_summarize                                                *)

\* A questions list and the files are of different lengths.
CountMismatch ==
  HTTPException(400, <<"Number of files must match number of questions">>)

InvalidQuestions ==
  HTTPException(400, <<"Invalid questions JSON format">>)

\* total_tokens of the results from the k-th on
RECURSIVE TotalTokensFrom(_, _)
TotalTokensFrom(results, k) ==
  IF k > Len(results) THEN 0
  ELSE results[k].usage.total_tokens + TotalTokensFrom(results, k + 1)

\* What batch_summarize returns after the loop; of the summary,
\* total_files and total_tokens are kept.
BatchResponse(files, results) ==
  [success |-> TRUE,
   results |-> results,
   summary |-> [total_files |-> Len(files),
                total_tokens |-> TotalTokensFrom(results, 1)]]

----------------------------------------------------------------------------
(* config.py: the pricing tables and the cost of a call.                   *)
(* Money is counted in whole numbers: a rate is in units of 0.00001 USD    *)
(* per 1000 tokens (0.00015 is 15), tokens x rate is then the exact cost   *)
(* in units of 0.00000001 USD, and a rounded cost is in units of           *)
(* 0.000001 USD (0.00045 is 450).                                          *)

OPENAI_PRICING ==
  ("gpt-4o" :> [input |-> 250, output |-> 1000])
    @@ ("gpt-4o-mini" :> [input |-> 15, output |-> 60])
    @@ ("gpt-4-turbo" :> [input |-> 1000, output |-> 3000])
    @@ ("gpt-4" :> [input |-> 3000, output |-> 6000])
    @@ ("gpt-3.5-turbo" :> [input |-> 50, output |-> 150])

CLAUDE_PRICING ==
  ("claude-3-5-sonnet-20241022" :> [input |-> 300, output |-> 1500])
    @@ ("claude-3-opus" :> [input |-> 1500, output |-> 7500])
    @@ ("claude-3-sonnet" :> [input |-> 300, output |-> 1500])
    @@ ("claude-3-haiku" :> [input |-> 25, output |-> 125])

\* dict.get(key, default)
dict_get(table, key, default) ==
  IF key \in DOMAIN table THEN table[key] ELSE default

\* get_pricing with the claude branch answering from the openai default.
get_pricing_one_default(model, provider, ai_provider) ==
  LET given == IF provider = None THEN ai_provider ELSE provider[1]
  IN IF given = "openai"
       THEN dict_get(OPENAI_PRICING, model, OPENAI_PRICING["gpt-4o-mini"])
       ELSE IF given = "claude"
              THEN dict_get(CLAUDE_PRICING, model, OPENAI_PRICING["gpt-4o-mini"])
              ELSE [input |-> 0, output |-> 0]

\* provider is None when the argument is left out; ai_provider is
\* Config.AI_PROVIDER.
get_pricing(model, provider, ai_provider) ==
  LET given == IF provider = None THEN ai_provider ELSE provider[1]
  IN IF given = "openai"
       THEN dict_get(OPENAI_PRICING, model, OPENAI_PRICING["gpt-4o-mini"])
       ELSE IF given = "claude"
              THEN dict_get(CLAUDE_PRICING, model,
                            CLAUDE_PRICING["claude-3-5-sonnet-20241022"])
              ELSE [input |-> 0, output |-> 0]

\* round(x, 6) of the double nearest to exact / 10^8.  The double is within
\* a rounding error of the decimal, so off a tie the nearest multiple of
\* 0.000001 is the same for both; at a decimal tie the result follows the
\* side of the tie the double lies on, which above tells.
round6(exact, above) ==
  LET q == exact \div 100
      r == exact % 100
  IN IF r < 50 THEN q
     ELSE IF r > 50 THEN q + 1
     ELSE IF above THEN q + 1 ELSE q

\* calculate_cost with total_cost as the sum of the two rounded costs.
calculate_cost_rounded_sum(input_tokens, output_tokens, model, provider, ai_provider, above) ==
  LET pricing == get_pricing(model, provider, ai_provider)
      input_cost == input_tokens * pricing.input
      output_cost == output_tokens * pricing.output
  IN [input_cost |-> round6(input_cost, above.input),
      output_cost |-> round6(output_cost, above.output),
      total_cost |-> round6(input_cost, above.input)
                       + round6(output_cost, above.output),
      currency |-> "USD"]

calculate_cost(input_tokens, output_tokens, model, provider, ai_provider, above) ==
  LET pricing == get_pricing(model, provider, ai_provider)
      input_cost == input_tokens * pricing.input
      output_cost == output_tokens * pricing.output
      total_cost == input_cost + output_cost
  IN [input_cost |-> round6(input_cost, above.input),
      output_cost |-> round6(output_cost, above.output),
      total_cost |-> round6(total_cost, above.total),
      currency |-> "USD"]

----------------------------------------------------------------------------
(* formatters.py: ResponseFormatter.  Characters are code points: 10 is    *)
(* the line break, 32 the space, 35 "#", 46 ".", 124 "|", and 73, 86, 88   *)
(* are "I", "V", "X".                                                      *)

\* How many characters from position i on are in class (member) or out of
\* it (~member): what a greedy class+ takes.
RECURSIVE RunFrom(_, _, _, _)
RunFrom(text, i, class, member) ==
  IF i > Len(text) \/ ((text[i] \in class) # member) THEN 0
  ELSE 1 + RunFrom(text, i + 1, class, member)

\* re.sub(r'\n{3,}', '\n\n', text), from position i on
RECURSIVE sub_newlines(_, _)
sub_newlines(text, i) ==
  IF i > Len(text) THEN <<>>
  ELSE LET n == RunFrom(text, i, {10}, TRUE)
       IN  IF n >= 3
             THEN <<10, 10>> \o sub_newlines(text, i + n)
             ELSE <<text[i]>> \o sub_newlines(text, i + 1)

\* re.sub(r' +\n', '\n', text), from position i on
RECURSIVE sub_trailing_spaces(_, _)
sub_trailing_spaces(text, i) ==
  IF i > Len(text) THEN <<>>
  ELSE LET n == RunFrom(text, i, {32}, TRUE)
       IN  IF n >= 1 /\ i + n <= Len(text) /\ text[i + n] = 10
             THEN <<10>> \o sub_trailing_spaces(text, i + n + 1)
             ELSE <<text[i]>> \o sub_trailing_spaces(text, i + 1)

\* re.sub(r'(#+[^\n]+)\n([^\n])', r'\1\n\n\2', text), from position i on.
\* A match starts at a "#" with at least one more character on its line,
\* and takes the line, its line break and the character after it.
RECURSIVE sub_headers(_, _)
sub_headers(text, i) ==
  IF i > Len(text) THEN <<>>
  ELSE LET n == RunFrom(text, i, {10}, FALSE)
           j == i + n
       IN  IF /\ text[i] = 35
              /\ n >= 2
              /\ j + 1 <= Len(text)
              /\ text[j + 1] # 10
             THEN SubSeq(text, i, j - 1) \o <<10, 10, text[j + 1]>>
                    \o sub_headers(text, j + 2)
             ELSE <<text[i]>> \o sub_headers(text, i + 1)

_clean_text(text) ==
  strip(sub_headers(sub_trailing_spaces(sub_newlines(text, 1), 1), 1))

\* re.sub(r'([^\n])\n(\|)', r'\1\n\n\2', text), from position i on
RECURSIVE sub_before_table(_, _)
sub_before_table(text, i) ==
  IF i > Len(text) THEN <<>>
  ELSE IF /\ text[i] # 10
          /\ i + 2 <= Len(text)
          /\ text[i + 1] = 10
          /\ text[i + 2] = 124
         THEN <<text[i], 10, 10, 124>> \o sub_before_table(text, i + 3)
         ELSE <<text[i]>> \o sub_before_table(text, i + 1)

\* re.sub(r'(\|[^\n]+)\n([^\n|])', r'\1\n\n\2', text), from position i on
RECURSIVE sub_after_table(_, _)
sub_after_table(text, i) ==
  IF i > Len(text) THEN <<>>
  ELSE LET n == RunFrom(text, i, {10}, FALSE)
           j == i + n
       IN  IF /\ text[i] = 124
              /\ n >= 2
              /\ j + 1 <= Len(text)
              /\ text[j + 1] \notin {10, 124}
             THEN SubSeq(text, i, j - 1) \o <<10, 10, text[j + 1]>>
                    \o sub_after_table(text, j + 2)
             ELSE <<text[i]>> \o sub_after_table(text, i + 1)

_enhance_tables(text) == sub_after_table(sub_before_table(text, 1), 1)

\* re.sub(r'([IVX]+\.) ', r'\n\n\1 ', text), from position i on
RECURSIVE sub_roman(_, _)
sub_roman(text, i) ==
  IF i > Len(text) THEN <<>>
  ELSE LET n == RunFrom(text, i, {73, 86, 88}, TRUE)
       IN  IF /\ n >= 1
              /\ i + n + 1 <= Len(text)
              /\ text[i + n] = 46
              /\ text[i + n + 1] = 32
             THEN <<10, 10>> \o SubSeq(text, i, i + n + 1)
                    \o sub_roman(text, i + n + 2)
             ELSE <<text[i]>> \o sub_roman(text, i + 1)

_enhance_structure(text) == sub_roman(text, 1)

format(answer, question_type) ==
  LET cleaned == _clean_text(answer)
      tabled ==
        IF question_type \in {"muc_tieu", "ket_qua", "so_sanh", "ke_hoach"}
          THEN _enhance_tables(cleaned)
          ELSE cleaned
  IN  IF question_type \in {"tom_tat", "cach_thuc_hien", "kho_khan", "goi_y"}
        THEN _enhance_structure(tabled)
        ELSE tabled

format_info ==
  [ tom_tat |->
      [ structure_type |-> "hierarchical", has_tables |-> FALSE,
        numbering_style |-> "roman", sections |-> "3-6",
        estimated_length |-> "500-1000 words" ],
    muc_tieu |->
      [ structure_type |-> "mixed", has_tables |-> TRUE,
        numbering_style |-> "roman", sections |-> "2-4",
        estimated_length |-> "400-800 words" ],
    cach_thuc_hien |->
      [ structure_type |-> "hierarchical", has_tables |-> FALSE,
        numbering_style |-> "roman", sections |-> "5-8",
        estimated_length |-> "800-1500 words" ],
    ke_hoach |->
      [ structure_type |-> "table-based", has_tables |-> TRUE,
        numbering_style |-> "phases", sections |-> "2-4",
        estimated_length |-> "600-1000 words" ],
    kho_khan |->
      [ structure_type |-> "hierarchical", has_tables |-> FALSE,
        numbering_style |-> "roman", sections |-> "3-5",
        estimated_length |-> "500-900 words" ],
    ket_qua |->
      [ structure_type |-> "mixed", has_tables |-> TRUE,
        numbering_style |-> "roman", sections |-> "2-4",
        estimated_length |-> "400-800 words" ],
    so_sanh |->
      [ structure_type |-> "table-based", has_tables |-> TRUE,
        numbering_style |-> "ranking", sections |-> "2-3",
        estimated_length |-> "500-900 words" ],
    goi_y |->
      [ structure_type |-> "hierarchical", has_tables |-> FALSE,
        numbering_style |-> "roman", sections |-> "3-5",
        estimated_length |-> "600-1000 words" ],
    hieu_qua |->
      [ structure_type |-> "mixed", has_tables |-> TRUE,
        numbering_style |-> "roman", sections |-> "3-5",
        estimated_length |-> "600-1000 words" ],
    phuong_an |->
      [ structure_type |-> "comparative", has_tables |-> TRUE,
        numbering_style |-> "arabic", sections |-> "2-4",
        estimated_length |-> "700-1200 words" ] ]

get_format_info(question_type) ==
  dict_get(format_info, question_type, format_info["tom_tat"])

----------------------------------------------------------------------------
(* main.py under uvicorn: one process, one event loop.                     *)
(* summarize_document is a coroutine; the event loop runs a coroutine      *)
(* until it awaits, and runs the handler of another request only then.     *)

\* summarize_document awaits between "# 2. Save file" and "# 3. Parse
\* document".
handler_awaits_after_save == TRUE

\* summarize_document has no await: nothing else runs between its first
\* statement and its return.
handler_awaits == FALSE

----------------------------------------------------------------------------
(* Inputs of the classifier.                                               *)

MaxFrags == 2

\* Pieces questions are made of: patterns in several letter cases, words
\* that contain a pattern, the two halves of r"nao.*nhat", a line feed and
\* a filler that matches nothing.
QuestionFragments ==
  {
    <<84, 243, 109, 32, 116, 7855, 116>>,                  \* "Tom tat"
    <<77, 7908, 67, 32, 84, 73, 202, 85>>,                 \* "MUC TIEU"
    <<116, 114, 105, 7875, 110, 32, 107, 104, 97, 105>>,   \* "trien khai"
    <<107, 7871, 32, 104, 111, 7841, 99, 104>>,            \* "ke hoach"
    <<101, 120, 112, 108, 97, 110, 97, 116, 105, 111, 110>>, \* "explanation"
    <<75, 104, 243, 32, 107, 104, 259, 110>>,              \* "Kho khan"
    <<107, 7871, 116, 32, 113, 117, 7843>>,                \* "ket qua"
    <<83, 111, 32, 115, 225, 110, 104>>,                   \* "So sanh"
    <<110, 224, 111>>,                                     \* "nao"
    <<110, 104, 7845, 116>>,                               \* "nhat"
    <<10>>,                                                \* "\n"
    <<71, 7907, 105, 32, 253>>,                            \* "Goi y"
    <<104, 105, 7879, 117, 32, 113, 117, 7843>>,           \* "hieu qua"
    <<103, 105, 7843, 105, 32, 112, 104, 225, 112>>,       \* "giai phap"
    <<32, 116, 224, 105, 32, 108, 105, 7879, 117, 32>>     \* " tai lieu "
  }

\* Every concatenation of at most n fragments.
RECURSIVE Phrases(_)
Phrases(n) ==
  IF n = 0 THEN {<<>>}
  ELSE LET P == Phrases(n - 1)
       IN  P \cup {p \o f : p \in P, f \in QuestionFragments}

Questions == Phrases(MaxFrags)

\* Strings that are no key of the tables.
UnknownTypes == {"", "summary", "TOM_TAT"}

Range(s) == {s[i] : i \in DOMAIN s}

QuestionTypeInputs == Range(get_all_types) \cup UnknownTypes

----------------------------------------------------------------------------
(* Inputs of the prompt builder.                                           *)

MaxOver == 2

\* Document lengths around the ceiling, and the length of a document that
\* was truncated once.
DocLengths ==
  {0, 1, 2 * max_doc_length, max_doc_length + Len(ContinuationMarker)}
    \cup {max_doc_length + d : d \in (0 - MaxOver)..MaxOver}

\* A document of n characters whose content varies with the position:
\* lower-case letters, or digits.
LetterDoc(n) == [i \in 1..n |-> 97 + (i % 7)]

DigitDoc(n) == [i \in 1..n |-> 48 + (i % 10)]

\* A document that holds the continuation marker where a truncation would
\* put it, followed by more text.
MarkedDoc(n) ==
  [i \in 1..n |->
     IF i > max_doc_length /\ i <= max_doc_length + Len(ContinuationMarker)
     THEN ContinuationMarker[i - max_doc_length]
     ELSE 97 + (i % 7)]

Documents ==
  {LetterDoc(n) : n \in DocLengths} \cup {DigitDoc(n) : n \in DocLengths}
    \cup {MarkedDoc(n) : n \in DocLengths}

\* "Tom tat", and the empty question
PromptQuestions == {<<84, 243, 109, 32, 116, 7855, 116>>, <<>>}

PromptTypes == {"tom_tat", "ke_hoach", "summary"}

----------------------------------------------------------------------------
(* Inputs of the summarizer.                                               *)

MaxUsage == 1

\* "openai" and "claude", and a provider __init__ knows nothing of.
Providers == {"openai", "claude", "local"}

\* "ab", and a blank
SummarizerDocuments == {<<97, 98>>, <<32>>}

\* "Tom tat"
SummarizerQuestions == {<<84, 243, 109, 32, 116, 7855, 116>>}

\* The usage objects a backend may send: any counts.
UsageObjects ==
  [prompt_tokens : 0..MaxUsage, completion_tokens : 0..MaxUsage,
   total_tokens : 0..MaxUsage]

\* "I. A", and a message without content
Contents == {Some(<<73, 46, 32, 65>>), None}

FailureKinds == {"timeout", "auth", "rate_limit"}

Responses ==
  {Response(c, u) : c \in Contents, u \in {Some(x) : x \in UsageObjects}}
    \cup {Response(c, None) : c \in Contents}
    \cup {Failure(k) : k \in FailureKinds}

\* What the backend would answer to a second call.
FollowUps ==
  {Response(Some(<<73, 46, 32, 65>>),
            Some([prompt_tokens |-> 1, completion_tokens |-> 1,
                  total_tokens |-> 2])),
   Failure("timeout")}

Backends == {<<r1, r2>> : r1 \in Responses, r2 \in FollowUps}

\* Lengths the tokenizer library may give for a text.
EncodedLengths(text) == {Len(text) \div 4, Len(text)}

----------------------------------------------------------------------------
(* Inputs of the parser.                                                   *)

MaxItems == 2

\* Every sequence of at most n elements of S.
RECURSIVE SeqsUpTo(_, _)
SeqsUpTo(S, n) ==
  IF n = 0 THEN {<<>>}
  ELSE LET T == SeqsUpTo(S, n - 1)
       IN  T \cup {Append(t, x) : t \in T, x \in S}

\* n times the character c
Fill(c, n) == [i \in 1..n |-> c]

\* The pages of a PDF: text is what extract_text gives for the page and
\* ocr what image_to_string gives for its image, None when the call
\* raises.  The texts are "", " ab ", a text of exactly the threshold and a
\* text one character longer; the OCR texts "", "x" and "wxyz ".
PdfPages ==
  {[text |-> None, ocr |-> None],
   [text |-> Some(<<>>), ocr |-> Some(<<>>)],
   [text |-> Some(<<>>), ocr |-> Some(<<120>>)],
   [text |-> Some(<<32, 97, 98, 32>>), ocr |-> None],
   [text |-> Some(<<32, 97, 98, 32>>), ocr |-> Some(<<>>)],
   [text |-> Some(<<32, 97, 98, 32>>), ocr |-> Some(<<120>>)],
   [text |-> Some(<<32, 97, 98, 32>>), ocr |-> Some(<<119, 120, 121, 122, 32>>)],
   [text |-> Some(Fill(98, meaningful_text_length)), ocr |-> Some(<<120>>)],
   [text |-> Some(Fill(98, meaningful_text_length + 1)), ocr |-> Some(<<120>>)]}

PdfFiles(n) ==
  [readable : BOOLEAN, rasterizable : BOOLEAN, pages : SeqsUpTo(PdfPages, n)]

\* Paragraph texts: "", " ", "ab ".  Cell texts: "", "c".
DocxFiles(n) ==
  [readable : {TRUE},
   paragraphs : SeqsUpTo({<<>>, <<32>>, <<97, 98, 32>>}, n),
   rows : SeqsUpTo(SeqsUpTo({<<>>, <<99>>}, 2) \ {<<>>}, 1)]
    \cup {[readable |-> FALSE, paragraphs |-> <<>>, rows |-> <<>>]}

\* Sheets named "S": an empty one, and ones rendered as "1" and as " 1".
XlsxSheets ==
  {[name |-> <<83>>, empty |-> TRUE, rendered |-> <<>>],
   [name |-> <<83>>, empty |-> FALSE, rendered |-> <<49>>],
   [name |-> <<83>>, empty |-> FALSE, rendered |-> <<32, 49>>]}

XlsxFiles(n) ==
  [readable : {TRUE}, sheets : SeqsUpTo(XlsxSheets, n)]
    \cup {[readable |-> FALSE, sheets |-> <<>>]}

\* The bytes of text files: empty; " \n"; "abc"; " a\r\nb "; "e acute" in
\* UTF-8 and in Latin-1; 0x85 (NEL in Latin-1, an ellipsis in cp1252);
\* 0x81 (no cp1252 character); 0xA0; a three-byte UTF-8 character; a
\* UTF-8 byte order mark before "a".
TxtFiles ==
  {[bytes |-> b] :
     b \in {<<>>, <<32, 10>>, <<97, 98, 99>>, <<32, 97, 13, 10, 98, 32>>,
            <<195, 169>>, <<233>>, <<133>>, <<129>>, <<160>>,
            <<225, 187, 135>>, <<239, 187, 191, 97>>}}

\* ".PDF", ".exe" and no suffix
SuffixPdfUpper == <<46, 80, 68, 70>>

SuffixExe == <<46, 101, 120, 101>>

\* The (suffix, stored file) pairs given to parse.
ParserInputs(n) ==
  ({SuffixPdf} \X ({Some(f) : f \in PdfFiles(n)} \cup {None}))
    \cup ({SuffixPdfUpper} \X {Some(f) : f \in PdfFiles(1)})
    \cup ({SuffixDocx} \X ({Some(f) : f \in DocxFiles(n)} \cup {None}))
    \cup ({SuffixXlsx, SuffixXls}
            \X ({Some(f) : f \in XlsxFiles(n)} \cup {None}))
    \cup ({SuffixTxt} \X ({Some(f) : f \in TxtFiles} \cup {None}))
    \cup ({SuffixExe, <<>>} \X {Some([bytes |-> <<97, 98, 99>>])})

----------------------------------------------------------------------------
(* Inputs of the pipeline.                                                 *)

MaxBatch == 2

\* "a.txt" holding "abc"; "e.txt" holding " \n"; "s.pdf", a scan of one
\* page that OCR reads as "x"; "c.exe"; all of them removable once stored
UploadTxt ==
  [filename |-> <<97, 46, 116, 120, 116>>,
   body |-> [bytes |-> <<97, 98, 99>>], removable |-> TRUE]

UploadBlankTxt ==
  [filename |-> <<101, 46, 116, 120, 116>>, body |-> [bytes |-> <<32, 10>>],
   removable |-> TRUE]

UploadScan ==
  [filename |-> <<115, 46, 112, 100, 102>>,
   body |-> [readable |-> TRUE, rasterizable |-> TRUE,
             pages |-> <<[text |-> Some(<<>>), ocr |-> Some(<<120>>)]>>],
   removable |-> TRUE]

\* "z.pdf", a PDF without pages
UploadNoPages ==
  [filename |-> <<122, 46, 112, 100, 102>>,
   body |-> [readable |-> TRUE, rasterizable |-> TRUE, pages |-> <<>>],
   removable |-> TRUE]

UploadExe ==
  [filename |-> <<99, 46, 101, 120, 101>>,
   body |-> [bytes |-> <<97, 98, 99>>], removable |-> TRUE]

\* "k.txt" holding "abc", which os.remove fails to remove once it is stored
UploadKept ==
  [filename |-> <<107, 46, 116, 120, 116>>,
   body |-> [bytes |-> <<97, 98, 99>>], removable |-> FALSE]

\* "Tom tat" and "ke hoach", with their diacritics
QuestionSummary == <<84, 243, 109, 32, 116, 7855, 116>>

QuestionPlan == <<107, 7871, 32, 104, 111, 7841, 99, 104>>

\* The backend answers "I. A" with a usage object; it times out; it
\* answers with a message without content.
BackendAnswers ==
  <<Response(Some(<<73, 46, 32, 65>>),
             Some([prompt_tokens |-> 1, completion_tokens |-> 1,
                   total_tokens |-> 2])),
    Failure("timeout")>>

BackendTimesOut == <<Failure("timeout"), Failure("timeout")>>

BackendNoContent ==
  <<Response(None,
             Some([prompt_tokens |-> 1, completion_tokens |-> 0,
                   total_tokens |-> 1])),
    Failure("timeout")>>

\* The items of a request: the upload, the question, the question_type
\* given with it (None when there is none) and the backend its call finds.
Item(file, question, question_type, backend) ==
  [file |-> file, question |-> question, question_type |-> question_type,
   backend |-> backend]

Items ==
  {Item(UploadTxt, QuestionSummary, None, BackendAnswers),
   Item(UploadTxt, QuestionPlan, Some(""), BackendAnswers),
   Item(UploadTxt, QuestionSummary, Some("ke_hoach"), BackendAnswers),
   Item(UploadTxt, QuestionPlan, Some("summary"), BackendAnswers),
   Item(UploadTxt, QuestionSummary, None, BackendTimesOut),
   Item(UploadTxt, QuestionSummary, None, BackendNoContent),
   Item(UploadBlankTxt, QuestionSummary, None, BackendAnswers),
   Item(UploadScan, QuestionPlan, None, BackendAnswers),
   Item(UploadNoPages, QuestionSummary, None, BackendAnswers),
   Item(UploadExe, QuestionSummary, None, BackendAnswers),
   Item(UploadKept, QuestionSummary, None, BackendAnswers)}

FileNames == {i.file.filename : i \in Items}

\* The questions lists sent with the files of items: the items' own, the
\* list without its last question, and a text that is not JSON.
QuestionsOf(items) ==
  [k \in 1..Len(items) |->
     [question |-> items[k].question,
      question_type |-> items[k].question_type]]

QuestionsLists(items) ==
  {Some(QuestionsOf(items)), None}
    \cup (IF items = <<>> THEN {}
          ELSE {Some(SubSeq(QuestionsOf(items), 1, Len(items) - 1))})

----------------------------------------------------------------------------
(* Inputs of the cost component.                                           *)

MaxTokens == 3

\* Small counts, and the counts of the worked example.
TokenCounts == (0 .. MaxTokens) \cup {500, 1000}

\* Every model of the two tables, and one that is in neither.
Models == DOMAIN OPENAI_PRICING \cup DOMAIN CLAUDE_PRICING \cup {"m"}

ProvidersGiven == {None, Some("openai"), Some("claude"), Some("local")}

Aboves == [input : BOOLEAN, output : BOOLEAN, total : BOOLEAN]

----------------------------------------------------------------------------
(* Inputs of the formatter.                                                *)

MaxPieces == 4

\* "a", a line break, a space, "#", "|" and the section marker "I. "
AnswerPieces == {<<97>>, <<10>>, <<32>>, <<35>>, <<124>>, <<73, 46, 32>>}

\* The texts of up to n pieces.
RECURSIVE AnswersUpTo(_)
AnswersUpTo(n) ==
  IF n = 0 THEN {<<>>}
  ELSE LET T == AnswersUpTo(n - 1)
       IN  T \cup {t \o piece : t \in T, piece \in AnswerPieces}

Answers == AnswersUpTo(MaxPieces)

\* The ten question types and one that is none of them.
FormatTypes == Range(get_all_types) \cup {"khac"}

----------------------------------------------------------------------------
(* Inputs of the server: two requests to /summarize.                       *)

Requests == {1, 2}

\* Uploads named "a.txt" as UploadTxt is, holding "xy" and " \n".
UploadSameName ==
  [filename |-> UploadTxt.filename, body |-> [bytes |-> <<120, 121>>],
   removable |-> TRUE]

UploadSameNameBlank ==
  [filename |-> UploadTxt.filename, body |-> UploadBlankTxt.body,
   removable |-> TRUE]

ConcurrentItems ==
  {Item(UploadTxt, QuestionSummary, None, BackendAnswers),
   Item(UploadTxt, QuestionSummary, None, BackendTimesOut),
   Item(UploadSameName, QuestionPlan, None, BackendAnswers),
   Item(UploadSameNameBlank, QuestionSummary, None, BackendAnswers),
   Item(UploadScan, QuestionPlan, None, BackendAnswers),
   Item(UploadExe, QuestionSummary, None, BackendAnswers)}

\* A request is an item with the length the tokenizer gives its question.
ConcurrentRequests ==
  UNION {{[item |-> i, encoded_len |-> len] :
            len \in EncodedLengths(i.question)} : i \in ConcurrentItems}

ConcurrentFileNames == {i.file.filename : i \in ConcurrentItems}

----------------------------------------------------------------------------
(* The classifier on its own: classify, then get_format_template on the    *)
(* result, or get_format_template on any value.                            *)

InitC ==
  /\ c_question \in Questions
  /\ c_qtype = None
  /\ c_arg = None
  /\ c_template = None

IdleC ==
  /\ c_question = <<>>
  /\ c_qtype = None
  /\ c_arg = None
  /\ c_template = None

Classify ==
  /\ c_qtype = None
  /\ c_qtype' = Some(classify(c_question))
  /\ UNCHANGED <<c_question, c_arg, c_template, not_cvars>>

TemplateOfClassified ==
  /\ c_qtype # None
  /\ c_arg = None
  /\ c_arg' = c_qtype
  /\ c_template' = Some(get_format_template(c_qtype[1]))
  /\ UNCHANGED <<c_question, c_qtype, not_cvars>>

TemplateOfValue ==
  /\ c_qtype = None
  /\ c_arg = None
  /\ \E v \in QuestionTypeInputs :
       /\ c_arg' = Some(v)
       /\ c_template' = Some(get_format_template(v))
  /\ UNCHANGED <<c_question, c_qtype, not_cvars>>

NextC ==
  \/ Classify
  \/ TemplateOfClassified
  \/ TemplateOfValue

----------------------------------------------------------------------------
(* The prompt builder on its own: _build_user_prompt on a document, and    *)
(* once more on the document as the first call embedded it.                *)

InitP ==
  /\ p_document \in Documents
  /\ p_question \in PromptQuestions
  /\ p_qtype \in PromptTypes
  /\ p_embedded = None
  /\ p_prompt = None
  /\ p_embedded2 = None
  /\ p_prompt2 = None

IdleP ==
  /\ p_document = <<>>
  /\ p_question = <<>>
  /\ p_qtype = "tom_tat"
  /\ p_embedded = None
  /\ p_prompt = None
  /\ p_embedded2 = None
  /\ p_prompt2 = None

BuildUserPrompt ==
  /\ p_prompt = None
  /\ p_embedded' = Some(truncate_document(p_document))
  /\ p_prompt' = Some(_build_user_prompt(p_document, p_question, p_qtype))
  /\ UNCHANGED <<p_document, p_question, p_qtype, p_embedded2, p_prompt2,
               not_pvars>>

BuildUserPromptAgain ==
  /\ p_prompt # None
  /\ p_prompt2 = None
  /\ p_embedded2' = Some(truncate_document(p_embedded[1]))
  /\ p_prompt2' = Some(_build_user_prompt(p_embedded[1], p_question, p_qtype))
  /\ UNCHANGED <<p_document, p_question, p_qtype, p_embedded, p_prompt,
               not_pvars>>

NextP ==
  \/ BuildUserPrompt
  \/ BuildUserPromptAgain

----------------------------------------------------------------------------
(* The summarizer on its own: one invocation of summarize.                 *)

InitS ==
  /\ s_provider \in Providers
  /\ s_document \in SummarizerDocuments
  /\ s_question \in SummarizerQuestions
  /\ s_qtype \in PromptTypes
  /\ s_backend \in Backends
  /\ s_out = None

IdleS ==
  /\ s_provider = "openai"
  /\ s_document = <<>>
  /\ s_question = <<>>
  /\ s_qtype = "tom_tat"
  /\ s_backend = <<>>
  /\ s_out = None

Summarize ==
  /\ s_out = None
  /\ \E n \in EncodedLengths(s_document) :
       s_out' = Some(summarize(s_provider, s_document, s_question, s_qtype,
                               max_tokens_default, s_backend, n))
  /\ UNCHANGED <<s_provider, s_document, s_question, s_qtype, s_backend,
                 not_svars>>

NextS ==
  \/ Summarize

----------------------------------------------------------------------------
(* The parser on its own: parse on a stored file, as summarize_document    *)
(* calls it, and the check the pipeline makes of what parse returned.      *)

\* __init__: _check_ocr_availability is whether the OCR libraries import.
InitF ==
  /\ f_ocr_available \in BOOLEAN
  /\ \E input \in ParserInputs(MaxItems) :
       /\ f_suffix = input[1]
       /\ f_file = input[2]
  /\ f_result = None
  /\ f_content = None

IdleF ==
  /\ f_ocr_available = FALSE
  /\ f_suffix = <<>>
  /\ f_file = None
  /\ f_result = None
  /\ f_content = None

\* parser.parse(path) for a path ending in .pdf, in any case
ParsePdf ==
  /\ f_result = None
  /\ str_lower(f_suffix) = SuffixPdf
  /\ f_result' = Some(parse(f_suffix, f_file, f_ocr_available))
  /\ UNCHANGED <<f_ocr_available, f_suffix, f_file, f_content, not_fvars>>

\* parser.parse(path) for a .docx path
ParseDocx ==
  /\ f_result = None
  /\ str_lower(f_suffix) = SuffixDocx
  /\ f_result' = Some(parse(f_suffix, f_file, f_ocr_available))
  /\ UNCHANGED <<f_ocr_available, f_suffix, f_file, f_content, not_fvars>>

\* parser.parse(path) for a .xlsx or .xls path
ParseXlsx ==
  /\ f_result = None
  /\ str_lower(f_suffix) \in {SuffixXlsx, SuffixXls}
  /\ f_result' = Some(parse(f_suffix, f_file, f_ocr_available))
  /\ UNCHANGED <<f_ocr_available, f_suffix, f_file, f_content, not_fvars>>

\* parser.parse(path) for a .txt path
ParseTxt ==
  /\ f_result = None
  /\ str_lower(f_suffix) = SuffixTxt
  /\ f_result' = Some(parse(f_suffix, f_file, f_ocr_available))
  /\ UNCHANGED <<f_ocr_available, f_suffix, f_file, f_content, not_fvars>>

\* parser.parse(path) for a path of any other suffix
ParseUnsupported ==
  /\ f_result = None
  /\ str_lower(f_suffix) \notin SupportedSuffixes
  /\ f_result' = Some(parse(f_suffix, f_file, f_ocr_available))
  /\ UNCHANGED <<f_ocr_available, f_suffix, f_file, f_content, not_fvars>>

\* summarize_document, lines 151-157: document_content is what parse
\* returned, and an empty one is refused.
KeepDocumentContent ==
  /\ f_result # None
  /\ ~f_result[1].raised
  /\ f_content = None
  /\ f_result[1].value[1] # <<>>
  /\ f_content' = f_result[1].value
  /\ UNCHANGED <<f_ocr_available, f_suffix, f_file, f_result, not_fvars>>

NextF ==
  \/ ParsePdf
  \/ ParseDocx
  \/ ParseXlsx
  \/ ParseTxt
  \/ ParseUnsupported
  \/ KeepDocumentContent

----------------------------------------------------------------------------
(* The pipeline: one request to /summarize or to /batch-summarize.         *)

InitM ==
  /\ m_ocr_available \in BOOLEAN
  /\ m_endpoint \in {"summarize", "batch-summarize"}
  /\ \E items \in SeqsUpTo(Items, MaxBatch) :
       /\ m_endpoint = "summarize" => Len(items) = 1
       /\ m_files = [k \in 1..Len(items) |-> items[k].file]
       /\ m_backends = [k \in 1..Len(items) |-> items[k].backend]
       /\ m_questions \in
            IF m_endpoint = "summarize" THEN {Some(QuestionsOf(items))}
            ELSE QuestionsLists(items)
  /\ m_dir = [n \in FileNames |-> None]
  /\ m_results = <<>>
  /\ m_outcomes = <<>>
  /\ m_response = None

IdleM ==
  /\ m_ocr_available = FALSE
  /\ m_endpoint = "summarize"
  /\ m_files = <<>>
  /\ m_questions = None
  /\ m_backends = <<>>
  /\ m_dir = <<>>
  /\ m_results = <<>>
  /\ m_outcomes = <<>>
  /\ m_response = None

\* POST /summarize
SummarizeDocument ==
  /\ m_endpoint = "summarize"
  /\ m_files # <<>>
  /\ m_response = None
  /\ \E n \in EncodedLengths(m_questions[1][1].question) :
       LET result ==
             summarize_document(m_files[1], m_questions[1][1].question,
                                m_questions[1][1].question_type, m_dir,
                                m_ocr_available, m_backends[1], n)
       IN  /\ m_response' = Some([raised |-> result.raised,
                                  value |-> result.value,
                                  error |-> result.error])
           /\ m_outcomes' = Append(m_outcomes, result)
           /\ m_dir' = result.dir
  /\ UNCHANGED <<m_ocr_available, m_endpoint, m_files, m_questions,
                 m_backends, m_results, not_mvars>>

\* POST /batch-summarize with questions that json.loads refuses
BatchInvalidQuestions ==
  /\ m_endpoint = "batch-summarize"
  /\ m_response = None
  /\ m_questions = None
  /\ m_response' = Some([raised |-> TRUE, value |-> None,
                         error |-> Some(InvalidQuestions)])
  /\ UNCHANGED <<m_ocr_available, m_endpoint, m_files, m_questions,
                 m_backends, m_dir, m_results, m_outcomes, not_mvars>>

\* POST /batch-summarize with as many files as questions or not: the
\* HTTPException of the check is caught by except Exception.
BatchCountMismatch ==
  /\ m_endpoint = "batch-summarize"
  /\ m_response = None
  /\ m_questions # None
  /\ Len(m_files) # Len(m_questions[1])
  /\ m_response' = Some([raised |-> TRUE, value |-> None,
                         error |-> Some(HTTPException(500,
                                                      StrOf(CountMismatch)))])
  /\ UNCHANGED <<m_ocr_available, m_endpoint, m_files, m_questions,
                 m_backends, m_dir, m_results, m_outcomes, not_mvars>>

\* batch_summarize, one turn of the loop: the next item is awaited; its
\* exception leaves the loop and is raised as HTTPException(500).
BatchItem ==
  /\ m_endpoint = "batch-summarize"
  /\ m_response = None
  /\ m_questions # None
  /\ Len(m_files) = Len(m_questions[1])
  /\ Len(m_outcomes) < Len(m_files)
  /\ LET k == Len(m_outcomes) + 1
     IN  \E n \in EncodedLengths(m_questions[1][k].question) :
           LET result ==
                 summarize_document(m_files[k], m_questions[1][k].question,
                                    m_questions[1][k].question_type, m_dir,
                                    m_ocr_available, m_backends[k], n)
           IN  /\ m_outcomes' = Append(m_outcomes, result)
               /\ m_dir' = result.dir
               /\ IF result.raised
                  THEN /\ m_response' =
                            Some([raised |-> TRUE, value |-> None,
                                  error |->
                                    Some(HTTPException(
                                           500, StrOf(result.error[1])))])
                       /\ UNCHANGED m_results
                  ELSE /\ m_results' = Append(m_results, result.value[1])
                       /\ UNCHANGED m_response
  /\ UNCHANGED <<m_ocr_available, m_endpoint, m_files, m_questions,
                 m_backends, not_mvars>>

\* batch_summarize, after the loop
BatchReturn ==
  /\ m_endpoint = "batch-summarize"
  /\ m_response = None
  /\ m_questions # None
  /\ Len(m_files) = Len(m_questions[1])
  /\ Len(m_outcomes) = Len(m_files)
  /\ m_response' = Some([raised |-> FALSE,
                         value |-> Some(BatchResponse(m_files, m_results)),
                         error |-> None])
  /\ UNCHANGED <<m_ocr_available, m_endpoint, m_files, m_questions,
                 m_backends, m_dir, m_results, m_outcomes, not_mvars>>

NextM ==
  \/ SummarizeDocument
  \/ BatchInvalidQuestions
  \/ BatchCountMismatch
  \/ BatchItem
  \/ BatchReturn

----------------------------------------------------------------------------
(* The cost component: Config.get_pricing and Config.calculate_cost.       *)

InitK ==
  /\ k_ai_provider \in {"openai", "claude"}
  /\ k_model \in Models
  /\ k_provider \in ProvidersGiven
  /\ k_input_tokens \in TokenCounts
  /\ k_output_tokens \in TokenCounts
  /\ k_above \in Aboves
  /\ k_pricing = None
  /\ k_cost = None
  /\ k_cost2 = None

IdleK ==
  /\ k_ai_provider = "openai"
  /\ k_model = "gpt-4o-mini"
  /\ k_provider = None
  /\ k_input_tokens = 0
  /\ k_output_tokens = 0
  /\ k_above = [input |-> FALSE, output |-> FALSE, total |-> FALSE]
  /\ k_pricing = None
  /\ k_cost = None
  /\ k_cost2 = None

GetPricing ==
  /\ k_pricing = None
  /\ k_pricing' = Some(get_pricing(k_model, k_provider, k_ai_provider))
  /\ UNCHANGED <<k_ai_provider, k_model, k_provider, k_input_tokens,
                 k_output_tokens, k_above, k_cost, k_cost2, not_kvars>>

CalculateCost ==
  /\ k_cost = None
  /\ k_cost' = Some(calculate_cost(k_input_tokens, k_output_tokens, k_model,
                                   k_provider, k_ai_provider, k_above))
  /\ UNCHANGED <<k_ai_provider, k_model, k_provider, k_input_tokens,
                 k_output_tokens, k_above, k_pricing, k_cost2, not_kvars>>

CalculateCostAgain ==
  /\ k_cost # None
  /\ k_cost2 = None
  /\ k_cost2' = Some(calculate_cost(k_input_tokens, k_output_tokens, k_model,
                                    k_provider, k_ai_provider, k_above))
  /\ UNCHANGED <<k_ai_provider, k_model, k_provider, k_input_tokens,
                 k_output_tokens, k_above, k_pricing, k_cost, not_kvars>>

NextK == GetPricing \/ CalculateCost \/ CalculateCostAgain

----------------------------------------------------------------------------
(* The formatter: ResponseFormatter.format, and format on its own output.  *)

InitO ==
  /\ o_answer \in Answers
  /\ o_qtype \in FormatTypes
  /\ o_out = None
  /\ o_out2 = None

IdleO ==
  /\ o_answer = <<>>
  /\ o_qtype = "tom_tat"
  /\ o_out = None
  /\ o_out2 = None

Format ==
  /\ o_out = None
  /\ o_out' = Some(format(o_answer, o_qtype))
  /\ UNCHANGED <<o_answer, o_qtype, o_out2, not_ovars>>

FormatAgain ==
  /\ o_out # None
  /\ o_out2 = None
  /\ o_out2' = Some(format(o_out[1], o_qtype))
  /\ UNCHANGED <<o_answer, o_qtype, o_out, not_ovars>>

NextO == Format \/ FormatAgain

----------------------------------------------------------------------------
(* The server: the handlers of two requests on the event loop.             *)

InitQ ==
  /\ q_ocr_available \in BOOLEAN
  /\ q_requests \in [Requests -> ConcurrentRequests]
  /\ q_pc = [r \in Requests |-> "received"]
  /\ q_loop = 0
  /\ q_dir = [n \in ConcurrentFileNames |-> None]
  /\ q_read = [r \in Requests |-> None]
  /\ q_out = [r \in Requests |-> None]

IdleQ ==
  /\ q_ocr_available = FALSE
  /\ q_requests = <<>>
  /\ q_pc = <<>>
  /\ q_loop = 0
  /\ q_dir = <<>>
  /\ q_read = <<>>
  /\ q_out = <<>>

\* summarize_document up to "# 2. Save file": the event loop is free and
\* takes up the handler of a request; an extension that is not allowed ends
\* it, otherwise the upload is stored.
StartRequest ==
  \E r \in Requests :
    LET file == q_requests[r].item.file
        file_ext == str_lower(path_suffix(file.filename))
    IN  /\ q_pc[r] = "received"
        /\ q_loop = 0
        /\ IF \A i \in DOMAIN allowed_exts : allowed_exts[i] # file_ext
           THEN LET result ==
                      summarize_document(file, q_requests[r].item.question,
                                         q_requests[r].item.question_type,
                                         q_dir, q_ocr_available,
                                         q_requests[r].item.backend,
                                         q_requests[r].encoded_len)
                IN  /\ q_out' = [q_out EXCEPT ![r] = Some(result)]
                    /\ q_pc' = [q_pc EXCEPT ![r] = "done"]
                    /\ UNCHANGED <<q_loop, q_dir>>
           ELSE /\ q_dir' = Saved(q_dir, file)
                /\ q_pc' = [q_pc EXCEPT ![r] = "saved"]
                /\ q_loop' = IF handler_awaits THEN 0 ELSE r
                /\ UNCHANGED q_out
        /\ UNCHANGED <<q_ocr_available, q_requests, q_read, not_qvars>>

\* summarize_document from "# 3. Parse document" to its end, finally
\* included: the handler goes on with what is stored under its file's name.
FinishRequest ==
  \E r \in Requests :
    LET file == q_requests[r].item.file
        result ==
          summarize_saved(file, q_requests[r].item.question,
                          q_requests[r].item.question_type, q_dir,
                          q_ocr_available, q_requests[r].item.backend,
                          q_requests[r].encoded_len)
    IN  /\ q_pc[r] = "saved"
        /\ q_loop \in {0, r}
        /\ q_read' = [q_read EXCEPT ![r] = Some(q_dir[file.filename])]
        /\ q_out' = [q_out EXCEPT ![r] = Some(result)]
        /\ q_dir' = result.dir
        /\ q_pc' = [q_pc EXCEPT ![r] = "done"]
        /\ q_loop' = 0
        /\ UNCHANGED <<q_ocr_available, q_requests, not_qvars>>

NextQ == StartRequest \/ FinishRequest

----------------------------------------------------------------------------
(* Specifications: each component on its own, the others idle.             *)

InitClassifier == InitC /\ IdleP /\ IdleS /\ IdleF /\ IdleM /\ IdleK /\ IdleO /\ IdleQ

SpecClassifier == InitClassifier /\ [][NextC]_vars

InitPrompt == InitP /\ IdleC /\ IdleS /\ IdleF /\ IdleM /\ IdleK /\ IdleO /\ IdleQ

SpecPrompt == InitPrompt /\ [][NextP]_vars

InitSummarizer == InitS /\ IdleC /\ IdleP /\ IdleF /\ IdleM /\ IdleK /\ IdleO /\ IdleQ

SpecSummarizer == InitSummarizer /\ [][NextS]_vars

InitParser == InitF /\ IdleC /\ IdleP /\ IdleS /\ IdleM /\ IdleK /\ IdleO /\ IdleQ

SpecParser == InitParser /\ [][NextF]_vars

InitPipeline == InitM /\ IdleC /\ IdleP /\ IdleS /\ IdleF /\ IdleK /\ IdleO /\ IdleQ

SpecPipeline == InitPipeline /\ [][NextM]_vars

InitCost ==
  InitK /\ IdleC /\ IdleF /\ IdleM /\ IdleP /\ IdleS /\ IdleO /\ IdleQ

SpecCost == InitCost /\ [][NextK]_vars

InitFormatter ==
  InitO /\ IdleC /\ IdleF /\ IdleK /\ IdleM /\ IdleP /\ IdleS /\ IdleQ

SpecFormatter == InitFormatter /\ [][NextO]_vars

InitServer ==
  InitQ /\ IdleC /\ IdleF /\ IdleK /\ IdleM /\ IdleO /\ IdleP /\ IdleS

SpecServer == InitServer /\ [][NextQ]_vars

----------------------------------------------------------------------------
(* Claims about the classifier.                                            *)

\* The priority order the specification fixes.
IntentOrder ==
  << "tom_tat", "muc_tieu", "cach_thuc_hien", "ke_hoach", "kho_khan",
     "ket_qua", "so_sanh", "goi_y", "hieu_qua", "phuong_an" >>

Intents == Range(IntentOrder)

\* Some pattern listed for intent matches the lower-cased question.
Matches(intent, question) ==
  \E k \in 1..Len(patterns) :
    /\ patterns[k].qtype = intent
    /\ \E m \in 1..Len(patterns[k].patterns) :
         re_search(patterns[k].patterns[m], str_lower(question))

MatchingRanks(question) ==
  {i \in 1..Len(IntentOrder) : Matches(IntentOrder[i], question)}

\* C5: classify returns the first intent of the priority order one of whose
\* patterns matches the lower-cased question, and tom_tat when none does.
C5_FirstMatchWins ==
  c_qtype # None =>
    LET hits == MatchingRanks(c_question)
    IN  IF hits = {} THEN c_qtype[1] = "tom_tat"
        ELSE \E i \in hits :
               /\ c_qtype[1] = IntentOrder[i]
               /\ \A j \in hits : i <= j

\* C5 witness: a question matching two intents was classified as the
\* earlier of them, which is not the default.
C5_Witness ==
  /\ c_qtype # None
  /\ Cardinality(MatchingRanks(c_question)) >= 2
  /\ c_qtype[1] # "tom_tat"

\* C5 witness of the default: nothing matches a non-empty question.
C5_WitnessDefault ==
  /\ c_qtype = Some("tom_tat")
  /\ c_question # <<>>
  /\ MatchingRanks(c_question) = {}

\* C6: the template returned for any intent carries structure, numbering
\* style and table-usage flag, and a value that is no intent gets the
\* summary template.
C6_TemplateComplete ==
  c_template # None =>
    /\ {"structure", "numbering", "include_tables"}
         \subseteq DOMAIN c_template[1]
    /\ c_arg[1] \notin Intents => c_template[1] = templates["tom_tat"]

\* C6, the part that holds: the lookup is total, every template carries
\* a structure, and a value that is no intent gets the summary template.
C6_TemplateTotal ==
  c_template # None =>
    /\ "structure" \in DOMAIN c_template[1]
    /\ c_arg[1] \notin Intents => c_template[1] = templates["tom_tat"]

----------------------------------------------------------------------------
(* Claims about the prompt builder.                                        *)

\* The user prompt around an embedded document text.
PromptAround(embedded, question, question_type) ==
  PromptHead \o embedded \o PromptQuestionLabel \o question
    \o PromptTypeLabel \o TypeText(question_type) \o PromptTail

\* C8: a document of at most 15000 characters is embedded unmodified, a
\* longer one as its first 15000 characters followed by the continuation
\* marker, and nothing else of the document reaches the user prompt.
C8_TruncatedAtCeiling ==
  p_prompt # None =>
    LET expected ==
          IF Len(p_document) <= 15000 THEN p_document
          ELSE SubSeq(p_document, 1, 15000) \o ContinuationMarker
    IN  /\ p_embedded[1] = expected
        /\ p_prompt[1] = PromptAround(expected, p_question, p_qtype)
        /\ Len(p_embedded[1]) <= 15000 + Len(ContinuationMarker)

\* C8 witness: a document longer than the ceiling was embedded.
C8_Witness ==
  /\ p_prompt # None
  /\ Len(p_document) > 15000
  /\ Len(p_embedded[1]) = 15000 + Len(ContinuationMarker)

\* C8 witness: a document of exactly the ceiling was embedded unmodified.
C8_WitnessAtCeiling ==
  /\ p_prompt # None
  /\ Len(p_document) = 15000
  /\ p_embedded[1] = p_document

\* C9: truncating the already truncated document gives the same text as
\* truncating once, and a document under the ceiling is left unmodified.
C9_TruncationIdempotent ==
  /\ p_prompt # None /\ Len(p_document) < 15000 =>
       p_embedded[1] = p_document
  /\ p_prompt2 # None =>
       /\ p_embedded2[1] = p_embedded[1]
       /\ p_prompt2[1] = p_prompt[1]

\* C9 witness: a document over the ceiling went through the builder twice.
C9_Witness ==
  /\ p_prompt2 # None
  /\ Len(p_document) > 15000
  /\ p_embedded[1] # p_document
  /\ p_embedded2[1] = p_embedded[1]

----------------------------------------------------------------------------
(* Claims about the summarizer.                                            *)

ProviderErrorPrefixes == {"OpenAI API error: ", "Claude API error: "}

\* C10: an invocation of summarize sends at most one request to the
\* backend, and when that call fails the invocation ends with the provider
\* error that names the failure, without a second request.
C10_AtMostOneCall ==
  s_out # None =>
    /\ Len(s_out[1].requests) <= 1
    /\ (Len(s_out[1].requests) = 1 /\ ~s_backend[1].ok) =>
         /\ s_out[1].raised
         /\ s_out[1].error[1].message[1] \in ProviderErrorPrefixes
         /\ s_out[1].error[1].message[2] = s_backend[1].failure

\* C10 witness: the one call failed and the invocation raised.
C10_Witness ==
  /\ s_out # None
  /\ Len(s_out[1].requests) = 1
  /\ ~s_backend[1].ok
  /\ s_backend[2].ok
  /\ s_out[1].raised

\* The usage record of a result has the three counts, all natural numbers.
UsagePopulated(usage) ==
  /\ DOMAIN usage = {"input_tokens", "output_tokens", "total_tokens"}
  /\ \A k \in DOMAIN usage : usage[k] \in Nat

\* C11: the usage record of every result summarize returns, for either
\* provider and whatever counts the backend reports, has input_tokens,
\* output_tokens and total_tokens, all natural numbers, and total_tokens is
\* input_tokens + output_tokens.
C11_UsageTotalIsSum ==
  (s_out # None /\ ~s_out[1].raised)
    => /\ UsagePopulated(s_out[1].value[1].usage)
       /\ s_out[1].value[1].usage.total_tokens
            = s_out[1].value[1].usage.input_tokens
                + s_out[1].value[1].usage.output_tokens

\* The usage record is populated for both providers, and for the claude
\* provider, which computes the total itself, the total is the sum.
C11_ClaudeTotalIsSum ==
  (s_out # None /\ ~s_out[1].raised)
    => /\ UsagePopulated(s_out[1].value[1].usage)
       /\ s_provider = "claude"
            => s_out[1].value[1].usage.total_tokens
                 = s_out[1].value[1].usage.input_tokens
                     + s_out[1].value[1].usage.output_tokens


----------------------------------------------------------------------------
(* Claims about the parser                                                 *)

\* parse has been called on a PDF
ParsedPdf == f_result # None /\ str_lower(f_suffix) = SuffixPdf

\* The primary text of the PDF is below the meaningful-text threshold.
PrimaryBelowThreshold ==
  Len(strip(_parse_pdf_text(f_file))) <= meaningful_text_length

\* The errors parse raises for a PDF when OCR is available: those of an
\* extraction that ran both phases and got no text, and those of a failed
\* OCR run.
ErrorsWithOcrAvailable ==
  {parse(SuffixPdf, input[2], TRUE).error[1] :
     input \in {i \in ParserInputs(MaxItems) :
                  /\ i[1] = SuffixPdf
                  /\ parse(SuffixPdf, i[2], TRUE).raised}}

\* C2: when the primary text of a PDF is below the threshold and OCR is not
\* available, the OCR phase is skipped and parse fails with an error that
\* says OCR is not available and differs from every error of an
\* extraction that found no text.
C2_OcrUnavailableError ==
  (ParsedPdf /\ ~f_ocr_available /\ PrimaryBelowThreshold)
    => /\ f_result[1].raised
       /\ f_result[1].phases = <<"primary">>
       /\ f_result[1].error[1] \notin ErrorsWithOcrAvailable

\* The two usable texts of a PDF on which both phases were run; an OCR run
\* that raised has no usable text.
PrimaryText == strip(_parse_pdf_text(f_file))

SecondaryText ==
  LET ocr == _parse_pdf_with_ocr(f_file)
  IN  IF ocr.raised THEN <<>> ELSE strip(ocr.value[1])

\* C3: for a PDF on which both phases were run, parse returns the larger of
\* the two usable texts, and fails only when both are empty.
C3_LargerTextWins ==
  (ParsedPdf /\ f_result[1].phases = <<"primary", "ocr">>)
    => IF PrimaryText = <<>> /\ SecondaryText = <<>>
       THEN f_result[1].raised
       ELSE /\ ~f_result[1].raised
            /\ f_result[1].value[1] \in {PrimaryText, SecondaryText}
            /\ Len(f_result[1].value[1]) >= Len(PrimaryText)
            /\ Len(f_result[1].value[1]) >= Len(SecondaryText)

\* What the parser of the format returned is empty or all whitespace.
BlankExtraction ==
  /\ str_lower(f_suffix) \in SupportedSuffixes
  /\ LET raw == parser_func(str_lower(f_suffix), f_file, f_ocr_available)
     IN  ~raw.raised /\ strip(raw.value[1]) = <<>>

\* C4: a text parse returns is non-empty after stripping, whatever the
\* format and the path (primary, OCR, any encoding); an empty or blank
\* extraction ends in an error; the document_content the pipeline goes on
\* with is never blank.
C4_ExtractedTextNonEmpty ==
  /\ f_result # None
       => /\ ~f_result[1].raised => strip(f_result[1].value[1]) # <<>>
          /\ BlankExtraction => f_result[1].raised
  /\ f_content # None => strip(f_content[1]) # <<>>

\* An OCR run that read only blank pages ended in the error of parse.
C4_Witness ==
  /\ f_result # None
  /\ BlankExtraction
  /\ f_result[1].phases = <<"primary", "ocr">>
  /\ f_result[1].raised
  /\ f_result[1].error[1].type = "ValueError"

\* A text file read under the second encoding went on into the pipeline.
C4_WitnessKept ==
  /\ f_content # None
  /\ f_result[1].phases = <<"latin-1">>


\* parse has been called on a stored .txt file
ParsedTxt ==
  f_result # None /\ str_lower(f_suffix) = SuffixTxt /\ f_file # None

\* The text the stored bytes are the encoding of: Some(text), or None when
\* the bytes are no text in that encoding.
WrittenIn(encoding) == decode(encoding, f_file[1].bytes)

\* C19: plain-text extraction round-trips: for each encoding of the list
\* (utf-8, latin-1, cp1252, iso-8859-1), a non-empty file written in that
\* encoding is returned with content identical to what was written.
C19_TxtRoundTrips ==
  ParsedTxt =>
    \A k \in DOMAIN encodings :
      (WrittenIn(encodings[k]) # None /\ WrittenIn(encodings[k]) # Some(<<>>))
        => /\ ~f_result[1].raised
           /\ f_result[1].value[1] = WrittenIn(encodings[k])[1]

\* The same for the first encoding alone.
C19_Utf8RoundTrips ==
  (ParsedTxt /\ WrittenIn("utf-8") # None /\ WrittenIn("utf-8") # Some(<<>>))
    => /\ ~f_result[1].raised
       /\ f_result[1].value[1] = WrittenIn("utf-8")[1]

\* What does hold: a file that is UTF-8 is returned as its UTF-8 text with
\* the line ends made "\n" and the white space at both ends removed, when
\* that leaves anything.
C19_Utf8ReturnedTrimmed ==
  (/\ ParsedTxt
   /\ WrittenIn("utf-8") # None
   /\ strip(universal_newlines(WrittenIn("utf-8")[1], 1)) # <<>>)
    => /\ ~f_result[1].raised
       /\ f_result[1].value[1]
            = strip(universal_newlines(WrittenIn("utf-8")[1], 1))

\* C21: PDF extraction runs the primary phase and then either accepts or
\* goes on to OCR: the OCR phase is run exactly when the stripped primary
\* text has fewer characters than the meaningful-text threshold and OCR is
\* available; a primary text that reaches the threshold is accepted as the
\* result and OCR is not run for it.
C21_OcrBelowThresholdOnly ==
  ParsedPdf
    => /\ f_result[1].phases \in {<<"primary">>, <<"primary", "ocr">>}
       /\ f_result[1].phases = <<"primary", "ocr">>
            <=> (Len(PrimaryText) < meaningful_text_length /\ f_ocr_available)
       /\ Len(PrimaryText) >= meaningful_text_length
            => /\ ~f_result[1].raised
               /\ f_result[1].value[1] = PrimaryText
               /\ f_result[1].phases = <<"primary">>

\* What does hold: OCR is run exactly when the stripped primary text has no
\* more characters than the threshold and OCR is available, and a primary
\* text of more characters than the threshold is accepted.
C21_OcrUpToThreshold ==
  ParsedPdf
    => /\ f_result[1].phases \in {<<"primary">>, <<"primary", "ocr">>}
       /\ f_result[1].phases = <<"primary", "ocr">>
            <=> (Len(PrimaryText) <= meaningful_text_length /\ f_ocr_available)
       /\ Len(PrimaryText) > meaningful_text_length
            => /\ ~f_result[1].raised
               /\ f_result[1].value[1] = PrimaryText
               /\ f_result[1].phases = <<"primary">>

\* The texts of the pages from the k-th on whose call did not fail, in page
\* order, each followed by end; field is "text" for extract_text and "ocr"
\* for image_to_string.  A page extract_text finds nothing on adds nothing.
RECURSIVE SkippingFailedFrom(_, _, _, _)
SkippingFailedFrom(pages, field, end, k) ==
  IF k > Len(pages) THEN <<>>
  ELSE (IF pages[k][field] = None THEN <<>>
        ELSE IF field = "text" /\ strip(pages[k][field][1]) = <<>> THEN <<>>
        ELSE pages[k][field][1] \o end)
         \o SkippingFailedFrom(pages, field, end, k + 1)

\* parse has been called on a PDF that opens, one of whose pages fails in
\* the given call.
ParsedPdfWithFailedPage(field) ==
  /\ ParsedPdf
  /\ f_file # None
  /\ f_file[1].readable
  /\ \E k \in DOMAIN f_file[1].pages : f_file[1].pages[k][field] = None

\* The primary half: a page on which extract_text fails is skipped and the
\* primary text is that of the other pages, in page order.
C22_PrimaryPageSkipped ==
  ParsedPdfWithFailedPage("text")
    => /\ _parse_pdf_text(f_file)
            = SkippingFailedFrom(f_file[1].pages, "text", <<10>>, 1)
       /\ (f_result[1].phases = <<"primary">> /\ ~f_result[1].raised)
            => f_result[1].value[1]
                 = strip(SkippingFailedFrom(f_file[1].pages, "text",
                                            <<10>>, 1))

\* The OCR half: when OCR is run on the page images, a page on which
\* image_to_string fails is skipped, and the document fails only if the
\* other pages give no text.
C22_OcrPageSkipped ==
  (/\ ParsedPdfWithFailedPage("ocr")
   /\ f_file[1].rasterizable
   /\ f_result[1].phases = <<"primary", "ocr">>)
    => LET others ==
             SkippingFailedFrom(f_file[1].pages, "ocr", <<10, 10>>, 1)
       IN  strip(others) # <<>>
             => ~f_result[1].raised /\ f_result[1].value[1] = strip(others)

\* C22: a failure on a single page, in the primary extraction or in the OCR
\* phase, is recovered locally: the page is skipped, the other pages are
\* still processed in page order, and the document fails only if the text
\* of all pages together is empty.
C22_PageFailureRecovered == C22_PrimaryPageSkipped /\ C22_OcrPageSkipped
----------------------------------------------------------------------------
(* Claims about the pipeline                                               *)

\* A batch request that passed the checks of its questions has ended.
BatchEnded ==
  /\ m_endpoint = "batch-summarize"
  /\ m_response # None
  /\ m_questions # None
  /\ Len(m_files) = Len(m_questions[1])

\* C1: a batch in which an item fails still returns the results of all the
\* other items and reports the failed item as failed: every item is
\* processed, the batch returns, and its results hold, item by item, the
\* response of the item or the report of its failure.
C1_BatchKeepsOtherResults ==
  BatchEnded
    => /\ Len(m_outcomes) = Len(m_files)
       /\ ~m_response[1].raised
       /\ Len(m_response[1].value[1].results) = Len(m_files)
       /\ \A k \in 1..Len(m_files) :
            IF m_outcomes[k].raised
            THEN ~m_response[1].value[1].results[k].success
            ELSE m_response[1].value[1].results[k] = m_outcomes[k].value[1]

\* A batch whose first item succeeded and whose second failed has ended.
C1_FailedAfterCompleted ==
  /\ BatchEnded
  /\ Len(m_outcomes) = 2
  /\ ~m_outcomes[1].raised
  /\ m_outcomes[2].raised

\* C7: the question_type of every response of summarize_document is one of
\* the ten question types, whether it was classified or given with the
\* request.
C7_ReportedIntentKnown ==
  \A k \in 1..Len(m_outcomes) :
    ~m_outcomes[k].raised
      => m_outcomes[k].value[1].question_type \in Intents

\* A request without question_type, or with an empty one, is answered with
\* the classification of its question.
C7_ClassifiedIntentKnown ==
  \A k \in 1..Len(m_outcomes) :
    (/\ ~m_outcomes[k].raised
     /\ m_questions[1][k].question_type \in {None, Some("")})
      => m_outcomes[k].value[1].question_type
           = classify(m_questions[1][k].question)


\* The extension of the upload's name is none of .pdf, .docx, .xlsx, .xls,
\* .txt, in whatever case it is written.
ExtensionOutside(filename) ==
  str_lower(path_suffix(filename))
    \notin {SuffixPdf, SuffixDocx, SuffixXlsx, SuffixXls, SuffixTxt}

\* C17: a document whose extension is outside .pdf, .docx, .xlsx, .xls,
\* .txt is rejected before any I/O: its call fails without the file being
\* stored in the upload directory, without the parser and without a call of
\* the backend.
C17_RejectedBeforeIO ==
  \A k \in 1..Len(m_outcomes) :
    ExtensionOutside(m_files[k].filename)
      => /\ m_outcomes[k].raised
         /\ m_outcomes[k].steps = <<>>
         /\ m_outcomes[k].dir
              = IF k = 1 THEN [n \in FileNames |-> None]
                ELSE m_outcomes[k - 1].dir

\* The second file of a batch was rejected for its extension after the
\* first went through all the stages.
C17_Witness ==
  /\ Len(m_outcomes) = 2
  /\ ~m_outcomes[1].raised
  /\ m_outcomes[1].steps # <<>>
  /\ ExtensionOutside(m_files[2].filename)
  /\ m_outcomes[2].raised

\* The kind of failure an outcome of summarize_document is, by the stage
\* the call was left at: "unsupported format" when the extension was
\* refused; when the parser was the last stage, "ocr unavailable" for a PDF
\* without enough text of its own and no OCR libraries, "extraction"
\* otherwise; "provider" when the backend call was the last stage.
FailureKind(file, ocr_available, outcome) ==
  IF outcome.steps = <<>> THEN "unsupported format"
  ELSE IF outcome.steps = <<"save", "parse">>
    THEN IF /\ str_lower(path_suffix(file.filename)) = SuffixPdf
            /\ ~ocr_available
            /\ Len(strip(_parse_pdf_text(Some(file.body))))
                 <= meaningful_text_length
           THEN "ocr unavailable"
           ELSE "extraction"
  ELSE IF outcome.steps = <<"save", "parse", "question_type", "summarize">>
    THEN "provider"
  ELSE "other"

PipelineFailureKinds ==
  {"unsupported format", "extraction", "ocr unavailable", "provider",
   "count mismatch"}

\* The calls of summarize_document that fail, over the items and both
\* settings of the parser.
FailedCalls ==
  {c \in UNION {{[file |-> i.file, ocr_available |-> ocr,
                  outcome |->
                    summarize_document(i.file, i.question, i.question_type,
                                       [n \in FileNames |-> None], ocr,
                                       i.backend, len)] :
                   len \in EncodedLengths(i.question)} :
                 i \in Items, ocr \in BOOLEAN} :
     c.outcome.raised}

\* The failures of the given kind that reach the caller.
FailuresOfKind(kind) ==
  {c.outcome.error[1] :
     c \in {d \in FailedCalls :
              FailureKind(d.file, d.ocr_available, d.outcome) = kind}}
    \cup (IF kind = "count mismatch"
            THEN {HTTPException(500, StrOf(CountMismatch))}
            ELSE {})

\* failure, of the given kind, is not also a failure of another of kinds.
DistinctAmong(failure, kind, kinds) ==
  kind \in kinds
    => \A other \in kinds \ {kind} : failure \notin FailuresOfKind(other)

\* The failures that reached the caller are distinct among kinds.
FailuresDistinctAmong(kinds) ==
  /\ \A k \in 1..Len(m_outcomes) :
       m_outcomes[k].raised
         => DistinctAmong(m_outcomes[k].error[1],
                          FailureKind(m_files[k], m_ocr_available,
                                      m_outcomes[k]),
                          kinds)
  /\ (/\ m_endpoint = "batch-summarize"
      /\ m_response # None
      /\ m_questions # None
      /\ Len(m_files) # Len(m_questions[1]))
       => DistinctAmong(m_response[1].error[1], "count mismatch", kinds)

\* C18: failures of different kinds (unsupported format, extraction
\* failure, OCR unavailable, provider failure, count mismatch) reach the
\* caller as different outcomes: no failure of one kind is also the outcome
\* of a failure of another kind.
C18_FailureKindsDistinct == FailuresDistinctAmong(PipelineFailureKinds)

\* The same with the lack of OCR left out of the kinds.
C18_KindsButOcrDistinct ==
  FailuresDistinctAmong(PipelineFailureKinds \ {"ocr unavailable"})

\* Every failure that reaches the caller is an HTTPException of status 500.
C18_EveryFailureIs500 ==
  /\ \A k \in 1..Len(m_outcomes) :
       m_outcomes[k].raised => m_outcomes[k].error[1].status_code = 500
  /\ (m_response # None /\ m_response[1].raised /\ m_questions # None)
       => m_response[1].error[1].status_code = 500

\* The extraction of the k-th upload of the request on its own.
ExtractionOf(k) ==
  parse(path_suffix(m_files[k].filename), Some(m_files[k].body),
        m_ocr_available)

ExtractionSucceeded(k) ==
  ~ExtractionOf(k).raised /\ ExtractionOf(k).value[1] # <<>>

\* The call of the backend for the k-th item on its own succeeds.
CompletionSucceeded(k) ==
  LET q == m_questions[1][k]
      qtype == IF q.question_type = None \/ q.question_type[1] = ""
               THEN classify(q.question)
               ELSE q.question_type[1]
  IN  \E len \in EncodedLengths(q.question) :
        ~summarize("openai", ExtractionOf(k).value[1], q.question, qtype,
                   max_tokens_default, m_backends[k], len).raised

\* s is the first n elements of t, for some n.
IsPrefix(s, t) == Len(s) <= Len(t) /\ s = SubSeq(t, 1, Len(s))

\* C23: within one invocation the stages occur in the order extraction,
\* intent resolution, prompt build and LLM call, cost computation, answer
\* formatting; the backend is called only after extraction has succeeded,
\* cost and formatted answer are produced only after the LLM call has
\* succeeded, and a failed stage prevents every later stage.
C23_StagesInOrder ==
  \A k \in 1..Len(m_outcomes) :
    LET steps == m_outcomes[k].steps
    IN  /\ IsPrefix(steps, <<"save", "parse", "question_type", "summarize",
                             "cost", "format">>)
        /\ "summarize" \in Range(steps) => ExtractionSucceeded(k)
        /\ ("cost" \in Range(steps) \/ "format" \in Range(steps))
             => ExtractionSucceeded(k) /\ CompletionSucceeded(k)
        /\ (steps # <<>> /\ ~ExtractionSucceeded(k))
             => m_outcomes[k].raised /\ steps = <<"save", "parse">>
        /\ (steps # <<>> /\ ExtractionSucceeded(k) /\ ~CompletionSucceeded(k))
             => /\ m_outcomes[k].raised
                /\ steps = <<"save", "parse", "question_type", "summarize">>
        /\ ~m_outcomes[k].raised => Len(steps) = 6

\* A batch whose first item went through all the stages and whose second
\* stopped at the call of the backend.
C23_Witness ==
  /\ Len(m_outcomes) = 2
  /\ ~m_outcomes[1].raised
  /\ Len(m_outcomes[1].steps) = 6
  /\ m_outcomes[2].raised
  /\ ExtractionSucceeded(2)
  /\ ~CompletionSucceeded(2)
  /\ Len(m_outcomes[2].steps) = 4

\* C25: whenever an invocation that stored its upload ends, with a response
\* or with any failure, the file it stored is no longer in the upload
\* directory.
C25_StoredFileRemoved ==
  \A k \in 1..Len(m_outcomes) :
    m_outcomes[k].steps # <<>>
      => m_outcomes[k].dir[m_files[k].filename] = None

\* The same for the uploads whose stored file os.remove is able to remove.
C25_RemovableFileRemoved ==
  \A k \in 1..Len(m_outcomes) :
    (m_outcomes[k].steps # <<>> /\ m_files[k].removable)
      => m_outcomes[k].dir[m_files[k].filename] = None
----------------------------------------------------------------------------
(* Claims about the cost component.                                        *)

\* cost, in units of 0.000001 USD, is a multiple of 0.000001 USD nearest to
\* exact, in units of 0.00000001 USD.
RoundedTo6(cost, exact) == 100 * cost - exact \in -50 .. 50

\* The rates the call is charged at.
RatesOfCall == get_pricing(k_model, k_provider, k_ai_provider)

\* C12: calculate_cost scales linearly and rounds to 6 decimal places:
\* input_cost is input_tokens/1000 x input rate rounded to 6 places,
\* output_cost likewise, total_cost is the unrounded sum rounded to 6 places,
\* currency is USD; 1000 input and 500 output tokens at rates 0.00015 and
\* 0.0006 give total_cost 0.00045; the same inputs give the same result.
C12_CostIsRoundedLinear ==
  /\ k_cost # None =>
       /\ DOMAIN k_cost[1]
            = {"input_cost", "output_cost", "total_cost", "currency"}
       /\ RoundedTo6(k_cost[1].input_cost,
                     k_input_tokens * RatesOfCall.input)
       /\ RoundedTo6(k_cost[1].output_cost,
                     k_output_tokens * RatesOfCall.output)
       /\ RoundedTo6(k_cost[1].total_cost,
                     k_input_tokens * RatesOfCall.input
                       + k_output_tokens * RatesOfCall.output)
       /\ k_cost[1].currency = "USD"
       /\ (/\ k_input_tokens = 1000
           /\ k_output_tokens = 500
           /\ RatesOfCall = [input |-> 15, output |-> 60])
            => k_cost[1].total_cost = 450
  /\ k_cost2 # None => k_cost2 = k_cost

\* The two rounded parts add up to something else than the rounded sum, and
\* the call was made twice.
C12_Witness ==
  /\ k_cost # None
  /\ k_cost2 # None
  /\ k_input_tokens > 0
  /\ k_output_tokens > 0
  /\ k_cost[1].total_cost
       # k_cost[1].input_cost + k_cost[1].output_cost

\* The worked example: 1000 and 500 tokens at 0.00015 and 0.0006.
C12_WitnessExample ==
  /\ k_cost # None
  /\ k_input_tokens = 1000
  /\ k_output_tokens = 500
  /\ RatesOfCall = [input |-> 15, output |-> 60]
  /\ k_cost[1].total_cost = 450

\* The provider a lookup is about: the one given, Config.AI_PROVIDER when
\* none is.
ProviderOfLookup == IF k_provider = None THEN k_ai_provider ELSE k_provider[1]

\* C13: the pricing lookup never raises for an unknown model: a model that
\* is not in the provider's table resolves to the rates of the provider's
\* default model (gpt-4o-mini for openai, claude-3-5-sonnet-20241022 for
\* claude), and a model of the table resolves to its own entry.
C13_UnknownModelFallsBack ==
  k_pricing # None =>
    /\ DOMAIN k_pricing[1] = {"input", "output"}
    /\ ProviderOfLookup = "openai" =>
         k_pricing[1] = IF k_model \in DOMAIN OPENAI_PRICING
                          THEN OPENAI_PRICING[k_model]
                          ELSE OPENAI_PRICING["gpt-4o-mini"]
    /\ ProviderOfLookup = "claude" =>
         k_pricing[1] = IF k_model \in DOMAIN CLAUDE_PRICING
                          THEN CLAUDE_PRICING[k_model]
                          ELSE CLAUDE_PRICING["claude-3-5-sonnet-20241022"]

\* A claude lookup of a model the claude table does not have.
C13_Witness ==
  /\ k_pricing # None
  /\ ProviderOfLookup = "claude"
  /\ k_model \notin DOMAIN CLAUDE_PRICING
  /\ k_pricing[1] = [input |-> 300, output |-> 1500]

----------------------------------------------------------------------------
(* Claims about the formatter.                                             *)

\* C14: format is idempotent on its own output: format applied to the
\* result of format, for the same question type, gives that result again.
C14_FormatIdempotent == o_out2 # None => o_out2 = o_out

\* text has three line breaks in a row.
HasBlankRun(text) ==
  \E i \in 1..Len(text) - 2 :
    text[i] = 10 /\ text[i + 1] = 10 /\ text[i + 2] = 10

\* text has a space right before a line break.
HasSpaceBeforeBreak(text) ==
  \E i \in 1..Len(text) - 1 : text[i] = 32 /\ text[i + 1] = 10

\* C15: the output of format has no run of three or more line breaks and no
\* space immediately before a line break, whatever the answer and the type.
C15_OutputNormalized ==
  o_out # None => ~HasBlankRun(o_out[1]) /\ ~HasSpaceBeforeBreak(o_out[1])

\* Table usage is flagged for the type by the format metadata or by the
\* template.
TableOriented(question_type) ==
  \/ get_format_info(question_type).has_tables
  \/ LET template == get_format_template(question_type)
     IN  "include_tables" \in DOMAIN template /\ template.include_tables

Hierarchical(question_type) ==
  get_format_info(question_type).structure_type = "hierarchical"

\* The answer with the enhancements the metadata of the type calls for.
EnhancedByMetadata(answer, question_type) ==
  LET cleaned == _clean_text(answer)
      tabled == IF TableOriented(question_type)
                  THEN _enhance_tables(cleaned)
                  ELSE cleaned
  IN  IF Hierarchical(question_type)
        THEN _enhance_structure(tabled)
        ELSE tabled

\* C16: format applies the table enhancement for exactly the question types
\* whose metadata flags table usage, and the section-marker enhancement for
\* exactly those whose structure_type is hierarchical.
C16_EnhancementFollowsMetadata ==
  (o_out # None /\ o_qtype \in Intents)
    => o_out[1] = EnhancedByMetadata(o_answer, o_qtype)

\* The section-marker half of it alone.
C16_StructureFollowsMetadata ==
  (o_out # None /\ o_qtype \in Intents /\ ~TableOriented(o_qtype))
    => o_out[1] = EnhancedByMetadata(o_answer, o_qtype)


\* Position i of text is the first of a line.
LineStart(text, i) == i = 1 \/ text[i - 1] = 10

\* The line that starts at position i of text is a table row, and so is the
\* line right after it.
RowThenRow(text, i) ==
  /\ LineStart(text, i)
  /\ text[i] = 124
  /\ LET n == RunFrom(text, i, {10}, FALSE)
     IN  i + n + 1 <= Len(text) /\ text[i + n + 1] = 124

\* The number of table rows of text directly followed by a table row.
AdjacentRows(text) == Cardinality({i \in 1..Len(text) : RowThenRow(text, i)})

\* C26: for the table-oriented types, the table enhancement of format puts
\* blank lines only between a table block and the lines around it: table
\* rows that are adjacent in the text it is given are adjacent in the output.
C26_RowsStayAdjacent ==
  (o_out # None /\ o_qtype \in {"muc_tieu", "ket_qua", "so_sanh", "ke_hoach"})
    => AdjacentRows(o_out[1]) = AdjacentRows(_clean_text(o_answer))
----------------------------------------------------------------------------
(* Claims about the server.                                                *)

\* What the request alone determines: summarize_document on its upload and
\* question with nothing else in the upload directory.
OutcomeAlone(r) ==
  summarize_document(q_requests[r].item.file, q_requests[r].item.question,
                     q_requests[r].item.question_type,
                     [n \in ConcurrentFileNames |-> None], q_ocr_available,
                     q_requests[r].item.backend, q_requests[r].encoded_len)

\* C20: two summarize requests are independent however their handlers are
\* scheduled, uploads of the same name included: the outcome of each is what
\* its own upload and question determine, and no request reads, overwrites
\* or deletes the stored document of the other: a stored document stays as
\* its request stored it until that request has parsed it.
C20_RequestsIndependent ==
  \A r \in DOMAIN q_requests :
    /\ q_pc[r] = "saved"
         => q_dir[q_requests[r].item.file.filename]
              = Some(q_requests[r].item.file.body)
    /\ q_read[r] # None
         => q_read[r] = Some(Some(q_requests[r].item.file.body))
    /\ q_out[r] # None
         => /\ q_out[r][1].raised = OutcomeAlone(r).raised
            /\ q_out[r][1].value = OutcomeAlone(r).value
            /\ q_out[r][1].error = OutcomeAlone(r).error

\* Two requests with uploads of one name and different contents have both
\* ended, one with a response and the other with a failure.
C20_Witness ==
  /\ DOMAIN q_requests = Requests
  /\ q_requests[1].item.file.filename = q_requests[2].item.file.filename
  /\ q_requests[1].item.file.body # q_requests[2].item.file.body
  /\ q_out[1] # None
  /\ q_out[2] # None
  /\ q_out[1][1].raised # q_out[2][1].raised

\* The handler of one request is between storing and parsing its upload
\* while the other request, with an upload of the same name, is waiting.
C20_WitnessWaiting ==
  /\ DOMAIN q_requests = Requests
  /\ q_requests[1].item.file.filename = q_requests[2].item.file.filename
  /\ q_pc[1] = "saved"
  /\ q_pc[2] = "received"

\* While a handler runs, the handler of no other request does.
C20_HandlersDoNotOverlap ==
  \A r \in DOMAIN q_requests :
    q_pc[r] = "saved"
      => q_loop = r /\ \A other \in DOMAIN q_requests \ {r} : q_pc[other] # "saved"
====
